---- MODULE Spec2Model ----
(***************************************************************************)
(* Agentic pipeline orchestrator (src/src/framework/agentic_orchestrator.py) *)
(*                                                                         *)
(* Spec       the control loop of AgenticPipelineOrchestrator: one action  *)
(*            per step of execute_pipeline, with the position in the loop  *)
(*            held in pc.                                                  *)
(* AgentSpec  single calls of IssueResolutionAgent.analyze_situation and   *)
(*            execute_decision on inputs drawn from bounded sets.          *)
(*                                                                         *)
(* Time stamps, elapsed times and log text are left out; the calls the     *)
(* code makes (executor invocations, policy calls, sleeps, appends) are    *)
(* kept in the order the code makes them in the variable trace.  The       *)
(* values a dict holds for json.dumps are kept by the name of their type;  *)
(* an exception an operation raises is part of its outcome.                *)
(***************************************************************************)
EXTENDS Integers, Sequences, FiniteSets, TLC

\* ------------------------------------------------------------------ bounds

\* The work explored on one orchestrator: an execute_pipeline call counts one,
\* each phase of its list one, each issue an executor reports one; for the
\* command orchestrators, each execution of a command by the enhanced orchestrator counts one, and
\* so does each run of a baseline orchestrator.
MaxWork == 4

\* ------------------------------------------------------------- enumerations

AgentDecision == {"proceed", "retry", "escalate", "adapt", "terminate"}

PipelinePhase == {"extract", "validate", "analyze", "transform", "build", "deploy"}

IssueType == {"transient", "configuration", "data_quality", "resource", "critical"}

\* the severities the policy table names, and one it does not
Severities == {"low", "medium", "high", "unknown"}

\* ------------------------------------------------------------ small helpers

\* d[k] = v on a dict held as a function
Put(d, k, v) == [x \in (DOMAIN d) \cup {k} |-> IF x = k THEN v ELSE d[x]]

\* dict.get(k, default)
Get(d, k, default) == IF k \in DOMAIN d THEN d[k] ELSE default

EmptyDict == [x \in {} |-> ""]

\* all sequences over S of length at most n
RECURSIVE SeqsUpTo(_, _)
SeqsUpTo(S, n) ==
    IF n <= 0 THEN {<<>>}
    ELSE LET shorter == SeqsUpTo(S, n - 1)
         IN shorter \cup {Append(s, x) : s \in {t \in shorter : Len(t) = n - 1}, x \in S}

\* str(n) for the small counts that occur in messages
ToStr(n) ==
    CASE n = 0 -> "0" [] n = 1 -> "1" [] n = 2 -> "2" [] n = 3 -> "3"
      [] n = 4 -> "4" [] n = 5 -> "5" [] OTHER -> "many"

\* str.lower() on the words messages are made of
Lower(w) ==
    CASE w = "Timeout" -> "timeout"
      [] w = "TIMEOUT" -> "timeout"
      [] w = "Memory"  -> "memory"
      [] w = "Temporary" -> "temporary"
      [] w = "COBOL" -> "cobol"
      [] w = "Phase" -> "phase"
      [] OTHER -> w

\* keyword in message.lower(), a message being a sequence of words
ContainsLower(message, keyword) ==
    \E i \in 1..Len(message) : Lower(message[i]) = keyword

\* ------------------------------------------------------ the decision policy

\* analyze_situation with the transient branch ending in "else" where the code
\* has "elif severity == medium"
analyze_situation_else_adapt(issue) ==
    IF issue.issue_type = "transient" THEN
        IF issue.severity = "low" THEN "retry" ELSE "adapt"
    ELSE IF issue.issue_type = "configuration" THEN "adapt"
    ELSE IF issue.issue_type = "data_quality" THEN
        IF issue.severity \in {"low", "medium"} THEN "adapt" ELSE "escalate"
    ELSE IF issue.issue_type = "critical" THEN "escalate"
    ELSE "proceed"

\* a policy that looks at the message of a transient issue
analyze_situation_by_message(issue) ==
    IF issue.issue_type = "transient" THEN
        IF ContainsLower(issue.message, "timeout") THEN "adapt"
        ELSE IF issue.severity = "low" THEN "retry"
        ELSE IF issue.severity = "medium" THEN "adapt"
        ELSE "proceed"
    ELSE IF issue.issue_type = "configuration" THEN "adapt"
    ELSE IF issue.issue_type = "data_quality" THEN
        IF issue.severity \in {"low", "medium"} THEN "adapt" ELSE "escalate"
    ELSE IF issue.issue_type = "critical" THEN "escalate"
    ELSE "proceed"

\* a policy without the rule for critical issues
analyze_situation_critical_proceeds(issue) ==
    IF issue.issue_type = "transient" THEN
        IF issue.severity = "low" THEN "retry"
        ELSE IF issue.severity = "medium" THEN "adapt"
        ELSE "proceed"
    ELSE IF issue.issue_type = "configuration" THEN "adapt"
    ELSE IF issue.issue_type = "data_quality" THEN
        IF issue.severity \in {"low", "medium"} THEN "adapt" ELSE "escalate"
    ELSE "proceed"

\* IssueResolutionAgent.analyze_situation
analyze_situation(issue) ==
    IF issue.issue_type = "transient" THEN
        IF issue.severity = "low" THEN "retry"
        ELSE IF issue.severity = "medium" THEN "adapt"
        ELSE "proceed"
    ELSE IF issue.issue_type = "configuration" THEN "adapt"
    ELSE IF issue.issue_type = "data_quality" THEN
        IF issue.severity \in {"low", "medium"} THEN "adapt" ELSE "escalate"
    ELSE IF issue.issue_type = "critical" THEN "escalate"
    ELSE "proceed"

\* --------------------------------------------------- the resolution executor

max_retries == 3

base_delay == 2

\* a retry that sleeps base_delay every time, without backoff
RetryDelayNoBackoff(attempt) == base_delay

\* delay = base_delay * (2 ** attempt)
RetryDelay(attempt) == base_delay * (2 ^ attempt)

\* an outcome that lets the first attempt succeed
AttemptSucceedsAtOnce(attempt) == attempt >= 0

\* the simulated outcome of one attempt: "if attempt >= 1"
AttemptSucceeds(attempt) == attempt >= 1

\* the for loop of _execute_retry_strategy from iteration attempt on; events
\* are the sleeps and attempts made so far
RECURSIVE RetryLoop(_, _)
RetryLoop(attempt, events) ==
    IF attempt >= max_retries THEN [ok |-> FALSE, events |-> events]
    ELSE LET slept == Append(events, <<"sleep", attempt, RetryDelay(attempt)>>)
             tried == Append(slept, <<"attempt", attempt>>)
         IN IF AttemptSucceeds(attempt) THEN [ok |-> TRUE, events |-> tried]
            ELSE RetryLoop(attempt + 1, tried)

\* IssueResolutionAgent._execute_retry_strategy
execute_retry_strategy(ctx, issue) ==
    LET r == RetryLoop(0, <<>>)
    IN [ok |-> r.ok, raised |-> "none", context |-> ctx, events |-> r.events]

\* an adaptation that looks for "memory" before "timeout"
execute_adaptation_strategy_memory_first(ctx, issue) ==
    LET adapted ==
          IF issue.issue_type = "configuration" THEN
              IF ContainsLower(issue.message, "memory")
                THEN [ctx EXCEPT !.environment_vars = Put(@, "MEMORY_LIMIT", "4G")]
              ELSE IF ContainsLower(issue.message, "timeout")
                THEN [ctx EXCEPT !.environment_vars = Put(@, "TIMEOUT", "600")]
              ELSE ctx
          ELSE IF issue.issue_type = "data_quality"
            THEN [ctx EXCEPT !.metadata = Put(@, "quality_threshold", "0.8")]
          ELSE ctx
    IN [ok |-> TRUE, raised |-> "none", context |-> adapted, events |-> <<>>]

\* an adaptation that builds environment_vars anew for the timeout it sets
execute_adaptation_strategy_fresh_env(ctx, issue) ==
    LET adapted ==
          IF issue.issue_type = "configuration" THEN
              IF ContainsLower(issue.message, "timeout")
                THEN [ctx EXCEPT !.environment_vars = Put(EmptyDict, "TIMEOUT", "600")]
              ELSE IF ContainsLower(issue.message, "memory")
                THEN [ctx EXCEPT !.environment_vars = Put(@, "MEMORY_LIMIT", "4G")]
              ELSE ctx
          ELSE IF issue.issue_type = "data_quality"
            THEN [ctx EXCEPT !.metadata = Put(@, "quality_threshold", "0.8")]
          ELSE ctx
    IN [ok |-> TRUE, raised |-> "none", context |-> adapted, events |-> <<>>]

\* IssueResolutionAgent._execute_adaptation_strategy
execute_adaptation_strategy(ctx, issue) ==
    LET adapted ==
          IF issue.issue_type = "configuration" THEN
              IF ContainsLower(issue.message, "timeout")
                THEN [ctx EXCEPT !.environment_vars = Put(@, "TIMEOUT", "600")]
              ELSE IF ContainsLower(issue.message, "memory")
                THEN [ctx EXCEPT !.environment_vars = Put(@, "MEMORY_LIMIT", "4G")]
              ELSE ctx
          ELSE IF issue.issue_type = "data_quality"
            THEN [ctx EXCEPT !.metadata = Put(@, "quality_threshold", "0.8")]
          ELSE ctx
    IN [ok |-> TRUE, raised |-> "none", context |-> adapted, events |-> <<>>]

\* the types json.dumps encodes
JsonTypes == {"str", "int", "float", "bool", "NoneType", "list", "dict"}

\* json.dumps(d) goes through: every value of d is of a type it encodes
JsonSerializable(d) == \A k \in DOMAIN d : d[k] \in JsonTypes

\* IssueResolutionAgent._execute_escalation_strategy: the escalation record,
\* issue.context included, goes through json.dumps to the logger, and
\* json.dumps raises TypeError on a value it cannot encode; the pipeline
\* context is only read
execute_escalation_strategy(ctx, issue) ==
    IF JsonSerializable(issue.context)
    THEN [ok |-> TRUE, raised |-> "none", context |-> ctx,
          events |-> << <<"escalation", issue.phase, issue.issue_type, issue.severity>> >>]
    ELSE [ok |-> FALSE, raised |-> "TypeError", context |-> ctx,
          events |-> << <<"escalation", issue.phase, issue.issue_type, issue.severity>> >>]

\* IssueResolutionAgent.execute_decision
execute_decision(decision, ctx, issue) ==
    IF decision = "retry" THEN execute_retry_strategy(ctx, issue)
    ELSE IF decision = "adapt" THEN execute_adaptation_strategy(ctx, issue)
    ELSE IF decision = "escalate" THEN execute_escalation_strategy(ctx, issue)
    ELSE IF decision = "proceed"
      THEN [ok |-> TRUE, raised |-> "none", context |-> ctx, events |-> <<>>]
    ELSE IF decision = "terminate"
      THEN [ok |-> FALSE, raised |-> "none", context |-> ctx, events |-> <<>>]
    ELSE [ok |-> FALSE, raised |-> "none", context |-> ctx, events |-> <<>>]

\* the decision_record of AgenticAgent.log_decision, for the context
\* _resolve_issue_with_agent passes
DecisionRecord(decision, issue) ==
    [decision |-> decision,
     context  |-> [issue_type |-> issue.issue_type, phase |-> issue.phase,
                   severity |-> issue.severity],
     agent    |-> "IssueResolver"]

\* a log that keeps the latest record alone
log_decision_latest_only(history, decision, issue) ==
    <<DecisionRecord(decision, issue)>>

\* AgenticAgent.log_decision: decision_history.append(decision_record)
log_decision(history, decision, issue) ==
    Append(history, DecisionRecord(decision, issue))

\* ------------------------------------------------------------ phase executors

\* Issue(issue_type, severity, phase, message, context); a message is a
\* sequence of words, a context a dict from keys to the types of their values
Issue(type, severity, phase, message, ctx) ==
    [issue_type |-> type, severity |-> severity, phase |-> phase, message |-> message,
     context |-> ctx]

\* PhaseResult(phase, success, artifacts, issues); agent_decisions keeps its
\* default, the empty list
PhaseResult(phase, success, artifacts, issues) ==
    [phase |-> phase, success |-> success, artifacts |-> artifacts,
     issues |-> issues, agent_decisions |-> <<>>]

\* extract_commands of ExtractPhaseExecutor.execute, with the artifact name
\* f"{desc.lower().replace(' ', '_')}.extracted" of each description
extract_commands ==
    << [cmd |-> "obtain-cobol-programs.py",  artifact |-> "extracting_cobol_programs.extracted"],
       [cmd |-> "obtain-cobol-copybooks.py", artifact |-> "extracting_cobol_copybooks.extracted"],
       [cmd |-> "obtain-mvs-jcl.py",         artifact |-> "extracting_mvs_jcl.extracted"],
       [cmd |-> "obtain-bms-maps.py",        artifact |-> "extracting_bms_maps.extracted"] >>

\* "cobol-programs" in cmd
IsCobolPrograms(cmd) == cmd = "obtain-cobol-programs.py"

ExtractIssue ==
    Issue("transient", "medium", "extract",
          <<"Temporary", "network", "timeout", "during", "COBOL", "program", "extraction">>,
          Put(EmptyDict, "command", "str"))

\* the loop over extract_commands from command i on
RECURSIVE ExtractLoop(_, _, _, _)
ExtractLoop(i, simulate, artifacts, issues) ==
    IF i > Len(extract_commands) THEN [artifacts |-> artifacts, issues |-> issues]
    ELSE IF IsCobolPrograms(extract_commands[i].cmd) /\ simulate
      THEN ExtractLoop(i + 1, simulate, artifacts, Append(issues, ExtractIssue))
    ELSE ExtractLoop(i + 1, simulate, Append(artifacts, extract_commands[i].artifact), issues)

\* an extract phase that never simulates an issue
ExtractExecuteIgnoresSimulate(ctx) ==
    LET out == ExtractLoop(1, FALSE, <<>>, <<>>)
    IN PhaseResult("extract", Len(out.issues) = 0, out.artifacts, out.issues)

\* ExtractPhaseExecutor.execute
ExtractExecute(ctx) ==
    LET out == ExtractLoop(1, Get(ctx.metadata, "simulate_issues", FALSE), <<>>, <<>>)
    IN PhaseResult("extract", Len(out.issues) = 0, out.artifacts, out.issues)

\* What an executor written against PipelinePhaseExecutor.execute may report:
\* the artifact lists and the issues the custom executors of the model draw from
ArtifactInputs == {<<>>, <<"b", "a">>}

IssueInputs(phase) ==
    { Issue("transient", "low", phase, <<"network", "glitch">>, EmptyDict),
      Issue("configuration", "medium", phase, <<"Timeout", "exceeded">>, EmptyDict),
      Issue("data_quality", "high", phase, <<"corrupt", "records">>, EmptyDict),
      Issue("critical", "high", phase, <<"disk", "failure">>,
            Put(EmptyDict, "error", "OSError")) }

\* the results of a custom executor registered for phase, with at most n issues
CustomExecute(phase, n) ==
    { PhaseResult(phase, success, artifacts, issues) :
        success \in BOOLEAN, artifacts \in ArtifactInputs,
        issues \in SeqsUpTo(IssueInputs(phase), n) }

\* executor.execute(context) for the executor registered as kind
ExecutorResults(kind, phase, ctx, n) ==
    IF kind = "ExtractPhaseExecutor" THEN {ExtractExecute(ctx)}
    ELSE CustomExecute(phase, n)

\* a stub that records no artifact
MockResultNoArtifact(phase) ==
    PhaseResult(phase, TRUE, <<>>, <<>>)

\* the stub of _execute_phase_with_agent for a phase with no executor
MockResult(phase) ==
    PhaseResult(phase, TRUE, <<phase \o "_mock_artifact">>, <<>>)

\* --------------------------------------------------------------------- state

VARIABLES
    resolver,           \* the agent held in issue_resolver: the built-in one, or
                        \* one whose analyze_situation is overridden
    phase_executors,    \* the registry: phase -> kind of executor
    context,            \* the PipelineContext the caller hands to the runs
    execution_history,  \* orchestrator.execution_history
    decision_history,   \* issue_resolver.decision_history
    phases,             \* the phase list of the run in progress
    idx,                \* position of the for loop over phases (1-based)
    result,             \* the PhaseResult of the phase in progress
    issue_idx,          \* position of the for loop over result.issues
    resolved_issues,    \* resolved_issues of _execute_phase_with_agent
    overall_success,    \* overall_success of execute_pipeline
    pc,                 \* "idle", "loop", "resolve", "record", "report"
    returns,            \* how the execute_pipeline calls made so far ended: the
                        \* value returned, or the exception raised
    runs,               \* execute_pipeline calls made so far
    hist_start,         \* len(execution_history) when the run began
    pre_artifacts,      \* context.artifacts when the phase in progress began
    trace,              \* the calls of the run in progress, in order
    work,               \* the work done so far, counted as for MaxWork
    call,               \* AgentSpec: the agent call and its outcome
    agent,              \* EnhancedOrchestrator.agent: the built-in
                        \* AgentInterface, or one that overrides
                        \* decide_retry_strategy
    self_context,       \* EnhancedOrchestrator.context: None or the
                        \* ExecutionContext
    commands,           \* the command list main is working through
    cmd_idx,            \* position of main's for loop (1-based); 0 when
                        \* run_cmd_with_agent is called directly
    cmd,                \* cmd of the run_cmd_with_agent call in progress
    script_name,        \* script_name of that call
    attempt_count,      \* attempt_count of that call
    intervention_count  \* agent.intervention_count

\* the state of the phase pipeline and of the single agent calls
pipeline_vars == <<resolver, phase_executors, context, execution_history,
                   decision_history, phases, idx, result, issue_idx,
                   resolved_issues, overall_success, returns, runs, hist_start,
                   pre_artifacts, call>>

\* the state of the command orchestrators
command_vars == <<agent, self_context, commands, cmd_idx, cmd, script_name,
                  attempt_count, intervention_count>>

vars == <<pipeline_vars, pc, trace, work, command_vars>>

\* None where an ExecutionContext is expected
None == [none |-> TRUE]

\* no command orchestrator is in use
NoCommands ==
    /\ agent = "AgentInterface"
    /\ self_context = None
    /\ commands = <<>>
    /\ cmd_idx = 0
    /\ cmd = <<>>
    /\ script_name = ""
    /\ attempt_count = 0
    /\ intervention_count = 0

\* PipelineContext(project_id, ...) as the callers of the repository build it
NewContext(simulate, artifacts) ==
    [project_id |-> "demo-project",
     snapshot |-> "snapshot-1",
     app_name |-> "demo-app",
     environment_vars |-> EmptyDict,
     metadata |-> [k \in {"simulate_issues"} |-> simulate],
     artifacts |-> artifacts,
     metrics |-> EmptyDict]

\* the contexts the runs of the model start from: one as demo.py builds it, with
\* the simulation on and no artifact, one with it off and an artifact listed
InitialContexts == {NewContext(TRUE, <<>>), NewContext(FALSE, <<"a">>)}

\* AgenticPipelineOrchestrator.__init__ registers ExtractPhaseExecutor alone;
\* the other registries hold executors added to phase_executors afterwards
DefaultRegistry == [p \in {"extract"} |-> "ExtractPhaseExecutor"]

Registries ==
    { DefaultRegistry,
      [p \in {"extract", "validate"} |->
          IF p = "extract" THEN "ExtractPhaseExecutor" ELSE "Custom"] }

\* the phases the runs of the model are asked for
PhaseInputs == {"extract", "validate", "analyze"}

NoResult == PhaseResult("none", TRUE, <<>>, <<>>)

NoCall == [op |-> "none"]

\* AgenticPipelineOrchestrator.__init__
Init ==
    /\ resolver \in {"IssueResolutionAgent", "PolicyOverride"}
    /\ phase_executors \in Registries
    /\ context \in InitialContexts
    /\ execution_history = <<>>
    /\ decision_history = <<>>
    /\ phases = <<>>
    /\ idx = 1
    /\ result = NoResult
    /\ issue_idx = 1
    /\ resolved_issues = <<>>
    /\ overall_success = TRUE
    /\ pc = "idle"
    /\ returns = <<>>
    /\ runs = 0
    /\ hist_start = 0
    /\ pre_artifacts = <<>>
    /\ trace = <<>>
    /\ work = 0
    /\ call = NoCall
    /\ NoCommands

\* analyze_situation of the agent in issue_resolver: the table of the built-in
\* agent, any AgentDecision for an overriding one
Decisions(issue) ==
    IF resolver = "IssueResolutionAgent" THEN {analyze_situation(issue)}
    ELSE AgentDecision

\* ------------------------------------------------------------- control loop

\* execute_pipeline up to the for loop
ExecutePipeline ==
    /\ pc = "idle"
    /\ work < MaxWork
    /\ \E phs \in SeqsUpTo(PhaseInputs, MaxWork - work - 1) :
          /\ phases' = phs
          /\ work' = work + 1 + Len(phs)
    /\ runs' = runs + 1
    /\ idx' = 1
    /\ overall_success' = TRUE
    /\ hist_start' = Len(execution_history)
    /\ trace' = << <<"start", context.artifacts>> >>
    /\ pc' = "loop"
    /\ UNCHANGED <<command_vars, returns, resolver, phase_executors, context, execution_history,
                   decision_history, result, issue_idx, resolved_issues,
                   pre_artifacts, call>>

\* _execute_phase_with_agent for a phase with no registered executor
ExecuteMockPhase ==
    /\ pc = "loop"
    /\ idx <= Len(phases)
    /\ phases[idx] \notin DOMAIN phase_executors
    /\ result' = MockResult(phases[idx])
    /\ pre_artifacts' = context.artifacts
    /\ issue_idx' = 1
    /\ resolved_issues' = <<>>
    /\ pc' = "record"
    /\ UNCHANGED <<command_vars, work, resolver, phase_executors, context, execution_history,
                   decision_history, phases, idx, overall_success, returns, runs,
                   hist_start, trace, call>>

\* an executor call that hands over a context with environment_vars cleared
ExecutorContextWithoutSettings(ctx) == [ctx EXCEPT !.environment_vars = EmptyDict]

\* the context of executor.execute(context): the PipelineContext of the run
ExecutorContext(ctx) == ctx

\* _execute_phase_with_agent up to the loop over the issues: executor.execute
ExecutePhase ==
    /\ pc = "loop"
    /\ idx <= Len(phases)
    /\ phases[idx] \in DOMAIN phase_executors
    /\ \E r \in ExecutorResults(phase_executors[phases[idx]], phases[idx],
                                 ExecutorContext(context), MaxWork - work) :
          /\ result' = r
          /\ work' = work + Len(r.issues)
          /\ trace' = trace \o << <<"handed", idx, ExecutorContext(context)>>,
                                  <<"executor", idx, phases[idx], r.success>> >>
          /\ pc' = IF Len(r.issues) > 0 THEN "resolve" ELSE "record"
    /\ pre_artifacts' = context.artifacts
    /\ issue_idx' = 1
    /\ resolved_issues' = <<>>
    /\ UNCHANGED <<command_vars, resolver, phase_executors, context, execution_history,
                   decision_history, phases, idx, overall_success, returns, runs,
                   hist_start, call>>

\* how a call of execute_decision on issue i of phase k ended
CallEnd(out, k, i) ==
    IF out.raised = "none" THEN <<"returned", k, i, out.ok>>
    ELSE <<"raised", k, i, out.raised>>

\* one iteration of the loop over result.issues: _resolve_issue_with_agent;
\* an exception of execute_decision is caught nowhere and ends execute_pipeline
ResolveIssue ==
    /\ pc = "resolve"
    /\ LET issue == result.issues[issue_idx]
       IN \E decision \in Decisions(issue) :
            LET out == execute_decision(decision, context, issue)
            IN /\ decision_history' = log_decision(decision_history, decision, issue)
               /\ context' = out.context
               /\ resolved_issues' = IF out.ok THEN Append(resolved_issues, issue)
                                     ELSE resolved_issues
               /\ trace' = trace \o << <<"analyze", idx, issue_idx, decision>>,
                                       <<"log", idx, issue_idx, decision>>,
                                       <<"execute", idx, issue_idx, decision>> >>
                                 \o out.events
                                 \o << CallEnd(out, idx, issue_idx) >>
               /\ returns' = IF out.raised = "none" THEN returns
                             ELSE Append(returns, out.raised)
               /\ pc' = IF out.raised # "none" THEN "idle"
                        ELSE IF issue_idx = Len(result.issues) THEN "record"
                        ELSE "resolve"
    /\ issue_idx' = issue_idx + 1
    /\ UNCHANGED <<command_vars, work, resolver, phase_executors, execution_history, phases, idx,
                   result, overall_success, runs, hist_start, pre_artifacts, call>>

\* _execute_phase_with_agent handing back the executor's result as it came
FinalResultNeverFlipped == result

\* the end of _execute_phase_with_agent: result.success = True when every
\* issue was resolved
FinalResult ==
    IF Len(result.issues) > 0 /\ Len(resolved_issues) = Len(result.issues)
    THEN [result EXCEPT !.success = TRUE]
    ELSE result

\* an extend that skips the artifacts the context already holds
ExtendArtifactsNoDuplicates(artifacts, new) ==
    artifacts \o SelectSeq(new, LAMBDA a : \A i \in 1..Len(artifacts) : artifacts[i] # a)

\* context.artifacts.extend(result.artifacts)
ExtendArtifacts(artifacts, new) == artifacts \o new

\* a loop that stays on the phase it has just run
NextIndexSamePhase(i) == i

\* the loop's step to the next phase
NextIndex(i) == i + 1

\* execution_history.append(result) and the success branch of the loop body
PhaseSucceeded ==
    /\ pc = "record"
    /\ FinalResult.success
    /\ execution_history' = Append(execution_history, FinalResult)
    /\ context' = [context EXCEPT !.artifacts = ExtendArtifacts(@, FinalResult.artifacts)]
    /\ idx' = NextIndex(idx)
    /\ trace' = Append(trace, <<"append", idx, FinalResult.phase>>)
    /\ pc' = "loop"
    /\ UNCHANGED <<command_vars, work, resolver, phase_executors, decision_history, phases, result,
                   issue_idx, resolved_issues, overall_success, returns, runs,
                   hist_start, pre_artifacts, call>>

\* a critical issue whose message leaves the issue count out
CriticalIssueNoCount(phase, res) ==
    Issue("critical", "high", phase, <<"Phase", phase, "failed">>,
          Put(EmptyDict, "result", "PhaseResult"))

\* the critical issue _handle_phase_failure builds; its context holds the
\* PhaseResult object itself
CriticalIssue(phase, res) ==
    Issue("critical", "high", phase,
          <<"Phase", phase, "failed", "with", ToStr(Len(res.issues)), "issues">>,
          Put(EmptyDict, "result", "PhaseResult"))

\* _handle_phase_failure that halts whatever the decision
handle_phase_failure_always_halts(decision, ctx, critical_issue, k) ==
    IF decision = "escalate" THEN
        LET out == execute_decision(decision, ctx, critical_issue)
        IN [go_on |-> FALSE, raised |-> out.raised, context |-> out.context,
            events |-> << <<"execute", k, 0, decision>> >> \o out.events
                       \o << CallEnd(out, k, 0) >>]
    ELSE
        [go_on |-> FALSE, raised |-> "none", context |-> ctx, events |-> <<>>]

\* _handle_phase_failure that halts on ESCALATE alone
handle_phase_failure_terminate_goes_on(decision, ctx, critical_issue, k) ==
    IF decision = "escalate" THEN
        LET out == execute_decision(decision, ctx, critical_issue)
        IN [go_on |-> FALSE, raised |-> out.raised, context |-> out.context,
            events |-> << <<"execute", k, 0, decision>> >> \o out.events
                       \o << CallEnd(out, k, 0) >>]
    ELSE
        [go_on |-> TRUE, raised |-> "none", context |-> ctx, events |-> <<>>]

\* _handle_phase_failure from the agent's decision on: whether the run goes
\* on, the exception raised if any, and the calls made; k is the position of
\* the failed phase
handle_phase_failure(decision, ctx, critical_issue, k) ==
    IF decision = "terminate" THEN
        [go_on |-> FALSE, raised |-> "none", context |-> ctx, events |-> <<>>]
    ELSE IF decision = "escalate" THEN
        LET out == execute_decision(decision, ctx, critical_issue)
        IN [go_on |-> FALSE, raised |-> out.raised, context |-> out.context,
            events |-> << <<"execute", k, 0, decision>> >> \o out.events
                       \o << CallEnd(out, k, 0) >>]
    ELSE
        [go_on |-> TRUE, raised |-> "none", context |-> ctx, events |-> <<>>]

\* a failure branch that keeps the artifacts of the failed phase
ArtifactsAfterFailureKept(artifacts, new) == artifacts \o new

\* context.artifacts after the failure branch of the loop body, which has no
\* extend: new, the artifacts of the failed phase, is dropped
ArtifactsAfterFailure(artifacts, new) == artifacts

\* overall_success cleared only when the run halts
OverallClearedOnHalt(go_on) == go_on

\* overall_success after a failed phase; go_on is what _handle_phase_failure
\* returns afterwards
OverallAfterFailure(go_on) == FALSE

\* execution_history.append(result) and the failure branch of the loop body:
\* _handle_phase_failure, then break or the next phase; an exception raised
\* in _handle_phase_failure is caught nowhere and ends execute_pipeline
PhaseFailed ==
    /\ pc = "record"
    /\ ~FinalResult.success
    /\ execution_history' = Append(execution_history, FinalResult)
    /\ LET critical_issue == CriticalIssue(phases[idx], FinalResult)
       IN \E decision \in Decisions(critical_issue) :
            LET out == handle_phase_failure(decision, context, critical_issue, idx)
            IN /\ overall_success' = OverallAfterFailure(out.go_on)
               /\ context' = [out.context EXCEPT !.artifacts =
                                 ArtifactsAfterFailure(@, FinalResult.artifacts)]
               /\ trace' = trace \o << <<"append", idx, FinalResult.phase>>,
                                       <<"synthesized", idx, critical_issue>>,
                                       <<"analyze", idx, 0, decision>> >>
                                 \o out.events
               /\ idx' = IF out.go_on THEN NextIndex(idx) ELSE idx
               /\ returns' = IF out.raised = "none" THEN returns
                             ELSE Append(returns, out.raised)
               /\ pc' = IF out.raised # "none" THEN "idle"
                        ELSE IF out.go_on THEN "loop"
                        ELSE "report"
    /\ UNCHANGED <<command_vars, work, resolver, phase_executors, decision_history, phases, result,
                   issue_idx, resolved_issues, runs, hist_start,
                   pre_artifacts, call>>

\* str(b) of a bool
BoolStr(b) == IF b THEN "True" ELSE "False"

\* sum(f(x) for x in s), f given as the sequence of its values
RECURSIVE SumSeq(_)
SumSeq(s) == IF Len(s) = 0 THEN 0 ELSE s[1] + SumSeq(SubSeq(s, 2, Len(s)))

\* 1 if b else 0
Bit(b) == IF b THEN 1 ELSE 0

\* f"{x / y * 100:.1f}", in tenths of a percent
PercentTenths(x, y) == (2000 * x + y) \div (2 * y)

\* a report that counts every phase as successful
generate_execution_report_counts_all(history, decisions) ==
    IF Len(history) = 0
    THEN [empty |-> TRUE, total_phases |-> 0, successful_phases |-> 0,
          success_rate |-> 0, total_issues |-> 0, total_artifacts |-> 0,
          total_decisions |-> 0, decision_counts |-> EmptyDict]
    ELSE [empty |-> FALSE,
          total_phases |-> Len(history),
          successful_phases |-> Len(history),
          success_rate |-> PercentTenths(Len(history), Len(history)),
          total_issues |-> SumSeq([i \in 1..Len(history) |-> Len(history[i].issues)]),
          total_artifacts |-> SumSeq([i \in 1..Len(history) |-> Len(history[i].artifacts)]),
          total_decisions |-> Len(decisions),
          decision_counts |->
              [d \in {decisions[i].decision : i \in 1..Len(decisions)} |->
                  Cardinality({i \in 1..Len(decisions) : decisions[i].decision = d})]]

\* what _generate_execution_report logs: "No phases executed" for an empty
\* history, else the totals over execution_history and the decision counts
\* over decision_history
generate_execution_report(history, decisions) ==
    IF Len(history) = 0
    THEN [empty |-> TRUE, total_phases |-> 0, successful_phases |-> 0,
          success_rate |-> 0, total_issues |-> 0, total_artifacts |-> 0,
          total_decisions |-> 0, decision_counts |-> EmptyDict]
    ELSE LET successful_phases ==
                 SumSeq([i \in 1..Len(history) |-> Bit(history[i].success)])
         IN [empty |-> FALSE,
             total_phases |-> Len(history),
             successful_phases |-> successful_phases,
             success_rate |-> PercentTenths(successful_phases, Len(history)),
             total_issues |-> SumSeq([i \in 1..Len(history) |-> Len(history[i].issues)]),
             total_artifacts |-> SumSeq([i \in 1..Len(history) |-> Len(history[i].artifacts)]),
             total_decisions |-> Len(decisions),
             decision_counts |->
                 [d \in {decisions[i].decision : i \in 1..Len(decisions)} |->
                     Cardinality({i \in 1..Len(decisions) : decisions[i].decision = d})]]

\* the end of execute_pipeline: _generate_execution_report and the return
GenerateReport ==
    /\ \/ pc = "loop" /\ idx > Len(phases)
       \/ pc = "report"
    /\ trace' = Append(trace, <<"report",
                 generate_execution_report(execution_history, decision_history)>>)
    /\ returns' = Append(returns, BoolStr(overall_success))
    /\ pc' = "idle"
    /\ UNCHANGED <<command_vars, work, resolver, phase_executors, context, execution_history,
                   decision_history, phases, idx, result, issue_idx,
                   resolved_issues, overall_success, runs, hist_start,
                   pre_artifacts, call>>

Next ==
    \/ ExecutePipeline
    \/ ExecuteMockPhase
    \/ ExecutePhase
    \/ ResolveIssue
    \/ PhaseSucceeded
    \/ PhaseFailed
    \/ GenerateReport

Spec == Init /\ [][Next]_vars

\* ------------------------------------------------- single calls of the agent

\* the messages the issues of AgentSpec carry
MessageInputs ==
    { <<"network", "glitch">>,
      <<"Timeout", "exceeded">>,
      <<"out", "of", "Memory">>,
      <<"memory", "TIMEOUT">>,
      <<"Temporary", "network", "timeout", "during", "COBOL", "program", "extraction">> }

\* the contexts the issues of AgentSpec carry: the default, the one of
\* ExtractPhaseExecutor, the one of _handle_phase_failure
IssueContextInputs ==
    { EmptyDict, Put(EmptyDict, "command", "str"), Put(EmptyDict, "result", "PhaseResult") }

AgentIssues ==
    { Issue(t, s, p, m, c) :
        t \in IssueType, s \in Severities, p \in {"extract", "build"},
        m \in MessageInputs, c \in IssueContextInputs }

\* contexts with and without earlier settings of the keys ADAPT writes
AgentContexts ==
    { NewContext(TRUE, <<"a">>),
      [NewContext(FALSE, <<>>) EXCEPT
          !.environment_vars = [k \in {"TIMEOUT", "JAVA_HOME"} |->
                                   IF k = "TIMEOUT" THEN "30" ELSE "/opt/java"],
          !.metadata = Put(@, "quality_threshold", "0.95")],
      [NewContext(FALSE, <<"a", "b">>) EXCEPT
          !.environment_vars = [k \in {"MEMORY_LIMIT"} |-> "1G"]] }

\* an IssueResolutionAgent, an issue and a context, before any call
AgentInit ==
    /\ resolver = "IssueResolutionAgent"
    /\ phase_executors = DefaultRegistry
    /\ context \in AgentContexts
    /\ execution_history = <<>>
    /\ decision_history = <<>>
    /\ phases = <<>>
    /\ idx = 1
    /\ result = NoResult
    /\ issue_idx = 1
    /\ resolved_issues = <<>>
    /\ overall_success = TRUE
    /\ pc = "agent"
    /\ returns = <<>>
    /\ runs = 0
    /\ hist_start = 0
    /\ pre_artifacts = <<>>
    /\ trace = <<>>
    /\ work = 0
    /\ call \in {[op |-> "ready", issue |-> i] : i \in AgentIssues}
    /\ NoCommands

\* issue_resolver.analyze_situation(context, issue), as the first call or
\* after an execute_decision
AnalyzeSituation ==
    /\ pc = "agent"
    /\ call.op \in {"ready", "executed"}
    /\ call' = [op |-> "analyzed", issue |-> call.issue,
                decision |-> analyze_situation(call.issue), before |-> context]
    /\ UNCHANGED <<command_vars, resolver, phase_executors, context, execution_history,
                   decision_history, phases, idx, result, issue_idx,
                   resolved_issues, overall_success, pc, returns, runs, hist_start,
                   pre_artifacts, trace, work>>

\* issue_resolver.execute_decision(decision, context, issue)
ExecuteDecision ==
    /\ pc = "agent"
    /\ call.op = "ready"
    /\ \E decision \in AgentDecision :
          LET out == execute_decision(decision, context, call.issue)
          IN /\ context' = out.context
             /\ trace' = out.events
             /\ call' = [op |-> "executed", issue |-> call.issue,
                         decision |-> decision, ok |-> out.ok,
                         raised |-> out.raised, before |-> context]
    /\ UNCHANGED <<command_vars, resolver, phase_executors, execution_history,
                   decision_history, phases, idx, result, issue_idx,
                   resolved_issues, overall_success, pc, returns, runs, hist_start,
                   pre_artifacts, work>>

\* issue_resolver.execute_decision(decision, context, issue) once more, with
\* the decision and the issue of a call that returned
ExecuteAgain ==
    /\ pc = "agent"
    /\ call.op = "executed"
    /\ call.raised = "none"
    /\ LET out == execute_decision(call.decision, context, call.issue)
       IN /\ context' = out.context
          /\ trace' = out.events
          /\ call' = [op |-> "executed_again", issue |-> call.issue,
                      decision |-> call.decision, ok |-> out.ok,
                      raised |-> out.raised, before |-> call.before,
                      first_ok |-> call.ok, between |-> context]
    /\ UNCHANGED <<command_vars, resolver, phase_executors, execution_history,
                   decision_history, phases, idx, result, issue_idx,
                   resolved_issues, overall_success, pc, returns, runs, hist_start,
                   pre_artifacts, work>>

AgentNext ==
    \/ AnalyzeSituation
    \/ ExecuteDecision
    \/ ExecuteAgain

AgentSpec == AgentInit /\ [][AgentNext]_vars

\* ==================================================================== claims

Last(s) == s[Len(s)]

\* the last execute_pipeline call has returned a value
RunReturned == pc = "idle" /\ runs > 0 /\ Last(returns) \in {"True", "False"}

\* the PhaseResults appended in the run in progress (or the last one)
Appended == Len(execution_history) - hist_start

\* the k-th of them
Res(k) == execution_history[hist_start + k]

\* execute_decision returned ok for issue i of phase k (i = 0: the critical
\* issue of the phase-failure path)
Returned(k, i, ok) == \E p \in DOMAIN trace : trace[p] = <<"returned", k, i, ok>>

\* the executor of phase k returned a result with this success flag
ExecutorReturned(k, success) ==
    \E p \in DOMAIN trace :
        trace[p][1] = "executor" /\ trace[p][2] = k /\ trace[p][4] = success

AllResolved(k) == \A i \in 1..Len(Res(k).issues) : Returned(k, i, TRUE)

SomeUnresolved(k) == \E i \in 1..Len(Res(k).issues) : Returned(k, i, FALSE)

\* the decision the phase-failure path got at position p of the trace
IsFailureDecision(p, decision) ==
    trace[p][1] = "analyze" /\ trace[p][3] = 0 /\ trace[p][4] = decision

\* ---- C1
\* The policy table of the specification, for the five issue types and the
\* severities low, medium and high.
PolicyTable ==
    { <<"transient", "low", "retry">>, <<"transient", "medium", "adapt">>,
      <<"transient", "high", "proceed">>,
      <<"configuration", "low", "adapt">>, <<"configuration", "medium", "adapt">>,
      <<"configuration", "high", "adapt">>,
      <<"data_quality", "low", "adapt">>, <<"data_quality", "medium", "adapt">>,
      <<"data_quality", "high", "escalate">>,
      <<"critical", "low", "escalate">>, <<"critical", "medium", "escalate">>,
      <<"critical", "high", "escalate">>,
      <<"resource", "low", "proceed">>, <<"resource", "medium", "proceed">>,
      <<"resource", "high", "proceed">> }

\* C1: for every issue type and every severity among low, medium and high,
\* analyze_situation returns the decision the policy table gives.
C1_PolicyTableHolds ==
    call.op = "analyzed" =>
        \A row \in PolicyTable :
            (call.issue.issue_type = row[1] /\ call.issue.severity = row[2])
                => call.decision = row[3]

C1_Witness ==
    /\ call.op = "analyzed"
    /\ call.issue.issue_type = "transient"
    /\ call.issue.severity = "high"
    /\ call.decision = "proceed"

\* ---- C2
\* an issue that no row of the policy table matches: configuration and
\* critical match a row whatever the severity
Unmatched(issue) ==
    /\ issue.issue_type \notin {"configuration", "critical"}
    /\ \/ issue.issue_type = "resource"
       \/ issue.severity \notin {"low", "medium", "high"}

\* C2 as stated: an issue that matches no row of the policy table gets PROCEED,
\* also a transient, data_quality or resource issue of another severity.
C2_UnmatchedProceeds ==
    (call.op = "analyzed" /\ Unmatched(call.issue)) => call.decision = "proceed"

\* C2 amended: an issue that matches no row of the policy table gets PROCEED
\* unless it is a data_quality issue; a data_quality issue whose severity is
\* not low, medium or high gets ESCALATE.
C2_UnmatchedProceedsButDataQuality ==
    (call.op = "analyzed" /\ Unmatched(call.issue)) =>
        call.decision = IF call.issue.issue_type = "data_quality" THEN "escalate"
                        ELSE "proceed"

C2_Witness ==
    /\ call.op = "analyzed"
    /\ Unmatched(call.issue)
    /\ call.issue.issue_type = "data_quality"
    /\ call.issue.severity = "unknown"
    /\ call.decision = "escalate"

\* ---- C3
\* C3: a recorded PhaseResult that has issues, every one of which
\* execute_decision returned True for, has success = True.
C3_AllResolvedMeansSuccess ==
    \A k \in 1..Appended :
        (Len(Res(k).issues) > 0 /\ AllResolved(k)) => Res(k).success

C3_Witness ==
    \E k \in 1..Appended :
        /\ Len(Res(k).issues) > 0
        /\ AllResolved(k)
        /\ ExecutorReturned(k, FALSE)
        /\ Res(k).success

\* ---- C4
\* C4 as stated: a recorded PhaseResult with an issue execute_decision returned
\* False for has success = False, and the phase-failure path was taken for it.
C4_UnresolvedMeansFailure ==
    \A k \in 1..Appended :
        (Len(Res(k).issues) > 0 /\ SomeUnresolved(k)) =>
            /\ ~Res(k).success
            /\ \E p \in DOMAIN trace :
                   trace[p][1] = "analyze" /\ trace[p][2] = k /\ trace[p][3] = 0

\* ---- C5
\* C5 as stated: once the phase-failure path of phase k got ESCALATE, the
\* escalation strategy has been executed on the critical issue, once; no
\* executor is invoked and no PhaseResult appended afterwards; the run returns
\* False.
C5_EscalateHalts ==
    \A p \in DOMAIN trace :
        IsFailureDecision(p, "escalate") =>
            LET k == trace[p][2]
            IN /\ Len(trace) >= p + 2
               /\ trace[p + 1] = <<"execute", k, 0, "escalate">>
               /\ trace[p + 2] = <<"escalation", phases[k], "critical", "high">>
               /\ Cardinality({q \in DOMAIN trace :
                      trace[q][1] = "execute" /\ trace[q][2] = k /\ trace[q][3] = 0}) = 1
               /\ \A q \in DOMAIN trace :
                      q > p => trace[q][1] \notin {"executor", "append", "analyze"}
               /\ Appended = k
               /\ pc \in {"report", "idle"}
               /\ pc = "idle" => Last(returns) = "False"

\* ---- C6
\* C6: once the phase-failure path of phase k got TERMINATE, no PhaseResult is
\* appended and no executor invoked afterwards, and the run returns False.
C6_TerminateHalts ==
    \A p \in DOMAIN trace :
        IsFailureDecision(p, "terminate") =>
            LET k == trace[p][2]
            IN /\ \A q \in DOMAIN trace :
                      q > p => trace[q][1] \notin {"executor", "append", "analyze", "execute"}
               /\ Appended = k
               /\ pc \in {"report", "idle"}
               /\ pc = "idle" => Last(returns) = "False"

C6_Witness ==
    /\ pc = "idle"
    /\ Len(returns) > 0
    /\ Last(returns) = "False"
    /\ \E p \in DOMAIN trace :
          IsFailureDecision(p, "terminate") /\ trace[p][2] < Len(phases)

\* ---- C7
\* C7: a run that began with an empty history and returns, returns True
\* exactly when every PhaseResult in execution_history has success = True.
C7_ReturnIffAllSucceeded ==
    (pc = "idle" /\ runs > 0 /\ hist_start = 0 /\ Last(returns) \in {"True", "False"}) =>
        (Last(returns) = "True" <=>
            \A i \in 1..Len(execution_history) : execution_history[i].success)

C7_Witness ==
    /\ pc = "idle"
    /\ runs > 0
    /\ hist_start = 0
    /\ Last(returns) = "False"
    /\ Len(execution_history) = 2
    /\ ~execution_history[1].success
    /\ execution_history[2].success

\* ---- C8
\* C8: after a phase recorded with success = True, context.artifacts is the
\* list from before the phase followed by the phase's artifacts, in order,
\* duplicates kept.
C8_ArtifactsAppended ==
    ((pc \in {"loop", "report"} \/ RunReturned) /\ Appended > 0
        /\ Last(execution_history).success) =>
        context.artifacts = pre_artifacts \o Last(execution_history).artifacts

C8_Witness ==
    /\ pc = "loop"
    /\ Appended > 0
    /\ Last(execution_history).success
    /\ pre_artifacts = <<"a">>
    /\ Last(execution_history).artifacts = <<"b", "a">>
    /\ context.artifacts = <<"a", "b", "a">>

\* ---- C9
\* issue i of phase j was analyzed and its decision executed before position q
RoutedBefore(j, i, q) ==
    \E b \in 1..(q - 1) :
        /\ trace[b][1] = "returned" /\ trace[b][2] = j /\ trace[b][3] = i
        /\ \E a \in 1..(b - 1) :
               trace[a][1] = "analyze" /\ trace[a][2] = j /\ trace[a][3] = i

\* C9: the phases of the PhaseResults appended in a run are a prefix of the
\* phase list, and when the executor of a phase is invoked every earlier phase
\* of the list has had all its issues analyzed and resolved and its
\* PhaseResult appended.
C9_PhasesInOrder ==
    /\ Appended <= Len(phases)
    /\ \A j \in 1..Appended : Res(j).phase = phases[j]
    /\ \A q \in DOMAIN trace :
          trace[q][1] = "executor" =>
              \A j \in 1..(trace[q][2] - 1) :
                  /\ \E p \in 1..(q - 1) : trace[p] = <<"append", j, phases[j]>>
                  /\ j <= Appended
                  /\ \A i \in 1..Len(Res(j).issues) : RoutedBefore(j, i, q)

C9_Witness ==
    \E q \in DOMAIN trace :
        /\ trace[q][1] = "executor"
        /\ trace[q][2] = 2
        /\ Len(Res(1).issues) > 0
        /\ phases[1] # phases[2]

\* ---- C10
\* base_delay * 2^k for k = 0, 1, 2
BackoffDelay(k) == CASE k = 0 -> 2 [] k = 1 -> 4 [] k = 2 -> 8 [] OTHER -> -1

\* the positions of the attempts in the trace
Attempts == {p \in DOMAIN trace : trace[p][1] = "attempt"}

\* C10: a RETRY resolution makes at most 3 attempts, numbered from 0, and
\* each attempt k comes right after a sleep of 2, 4, 8 for k = 0, 1, 2.
C10_RetryBackoff ==
    (call.op = "executed" /\ call.decision = "retry") =>
        /\ Cardinality(Attempts) <= 3
        /\ \A p \in Attempts :
              /\ trace[p][2] = Cardinality({q \in Attempts : q < p})
              /\ p > 1
              /\ trace[p - 1] = <<"sleep", trace[p][2], BackoffDelay(trace[p][2])>>

C10_Witness ==
    /\ call.op = "executed"
    /\ call.decision = "retry"
    /\ trace = << <<"sleep", 0, 2>>, <<"attempt", 0>>, <<"sleep", 1, 4>>, <<"attempt", 1>> >>

\* ---- C11
\* C11: a RETRY resolution does not return True after attempt 0 alone; when it
\* returns True, its last step is the first attempt of index >= 1; when it
\* returns False, all max_retries attempts have been made.
C11_RetryOutcome ==
    (call.op = "executed" /\ call.decision = "retry") =>
        /\ call.raised = "none"
        /\ call.ok => /\ Cardinality(Attempts) >= 2
                      /\ trace[Len(trace)][1] = "attempt"
                      /\ trace[Len(trace)][2] >= 1
                      /\ \A p \in Attempts : p < Len(trace) => trace[p][2] < 1
        /\ ~call.ok => /\ Cardinality(Attempts) = max_retries
                       /\ max_retries = 3

C11_Witness ==
    /\ call.op = "executed"
    /\ call.decision = "retry"
    /\ call.ok
    /\ Cardinality(Attempts) = 2
    /\ trace[Len(trace)] = <<"attempt", 1>>

\* ---- C12
\* the loop over result.issues has just routed an issue
JustResolved == pc \in {"resolve", "record"} /\ issue_idx > 1

\* that issue
LastIssue == result.issues[issue_idx - 1]

\* the last n events of the trace
LastEvents(n) == SubSeq(trace, Len(trace) - n + 1, Len(trace))

TransientLowRouted ==
    /\ resolver = "IssueResolutionAgent"
    /\ JustResolved
    /\ LastIssue.issue_type = "transient"
    /\ LastIssue.severity = "low"

\* C12 as stated: a transient issue of severity low gets RETRY, the resolution
\* makes 3 attempts after delays of 2, 4 and 8, and returns True.
C12_ThreeAttempts ==
    TransientLowRouted =>
        /\ Len(trace) >= 10
        /\ LastEvents(10) = << <<"analyze", idx, issue_idx - 1, "retry">>,
                         <<"log", idx, issue_idx - 1, "retry">>,
                         <<"execute", idx, issue_idx - 1, "retry">>,
                         <<"sleep", 0, 2>>, <<"attempt", 0>>,
                         <<"sleep", 1, 4>>, <<"attempt", 1>>,
                         <<"sleep", 2, 8>>, <<"attempt", 2>>,
                         <<"returned", idx, issue_idx - 1, TRUE>> >>

\* C12 amended: a transient issue of severity low gets RETRY, the resolution
\* makes 2 attempts after delays of 2 and 4, and returns True.
C12_TwoAttempts ==
    TransientLowRouted =>
        /\ Len(trace) >= 8
        /\ LastEvents(8) = << <<"analyze", idx, issue_idx - 1, "retry">>,
                        <<"log", idx, issue_idx - 1, "retry">>,
                        <<"execute", idx, issue_idx - 1, "retry">>,
                        <<"sleep", 0, 2>>, <<"attempt", 0>>,
                        <<"sleep", 1, 4>>, <<"attempt", 1>>,
                        <<"returned", idx, issue_idx - 1, TRUE>> >>

C12_Witness ==
    /\ TransientLowRouted
    /\ Len(resolved_issues) = issue_idx - 1
    /\ Cardinality({p \in DOMAIN trace : trace[p][1] = "sleep"}) = 2

\* ---- C13
\* the positions of the trace where an issue was handed to analyze_situation
Analyzed == {p \in DOMAIN trace : trace[p][1] = "analyze"}

\* C13 as stated: every execute_decision call of the control loop, for an issue
\* of a phase and for the critical issue of the phase-failure path alike, comes
\* right after the append of a DecisionRecord with the decision executed and
\* the issue's issue_type, phase and severity; every issue routed to the policy
\* has its DecisionRecord.
C13_EveryExecutionLogged ==
    /\ \A p \in DOMAIN trace :
          trace[p][1] = "execute" =>
              /\ p > 1
              /\ trace[p - 1] = <<"log", trace[p][2], trace[p][3], trace[p][4]>>
    /\ \A p \in Analyzed :
          \E q \in DOMAIN trace :
              trace[q] = <<"log", trace[p][2], trace[p][3], trace[p][4]>>
    /\ Len(decision_history) >= Cardinality(Analyzed)
    /\ JustResolved =>
          /\ Len(decision_history) > 0
          /\ Last(decision_history).context =
                 [issue_type |-> LastIssue.issue_type, phase |-> LastIssue.phase,
                  severity |-> LastIssue.severity]

\* ---- C14
\* s is a prefix of t
IsPrefix(s, t) == Len(s) <= Len(t) /\ SubSeq(t, 1, Len(s)) = s

\* C14: decision_history is append-only: at every step, of any run and of the
\* report generation, its previous content is a prefix of its new content.
C14_AppendOnly == [][IsPrefix(decision_history, decision_history')]_vars

C14_Witness ==
    /\ runs = 2
    /\ pc = "idle"
    /\ Len(returns) = 2
    /\ Len(decision_history) > 0

\* ---- C15
\* C15 as stated: execute_decision with PROCEED or ESCALATE returns True for
\* every issue, returns True again on a second call with the same issue, and
\* leaves the PipelineContext as it was.
C15_ProceedEscalateSucceed ==
    /\ (call.op = "executed" /\ call.decision \in {"proceed", "escalate"}) =>
          /\ call.raised = "none"
          /\ call.ok
          /\ context = call.before
    /\ (call.op = "executed_again" /\ call.decision \in {"proceed", "escalate"}) =>
          /\ call.raised = "none"
          /\ call.first_ok
          /\ call.ok
          /\ context = call.before

\* ---- C16
\* the context the last call of AgentSpec was made with
CallContext == IF call.op = "executed" THEN call.before ELSE call.between

\* dicts d and e agree outside keys
SameExcept(d, e, keys) ==
    /\ (DOMAIN d) \ keys = (DOMAIN e) \ keys
    /\ \A k \in (DOMAIN d) \ keys : d[k] = e[k]

\* C16: execute_decision with ADAPT returns True for every issue and changes
\* nothing of the context but environment_vars["TIMEOUT"],
\* environment_vars["MEMORY_LIMIT"] and metadata["quality_threshold"].
C16_AdaptFrame ==
    (call.op \in {"executed", "executed_again"} /\ call.decision = "adapt") =>
        /\ call.raised = "none"
        /\ call.ok
        /\ context.artifacts = CallContext.artifacts
        /\ context.metrics = CallContext.metrics
        /\ context.project_id = CallContext.project_id
        /\ context.snapshot = CallContext.snapshot
        /\ context.app_name = CallContext.app_name
        /\ SameExcept(CallContext.environment_vars, context.environment_vars,
                      {"TIMEOUT", "MEMORY_LIMIT"})
        /\ SameExcept(CallContext.metadata, context.metadata, {"quality_threshold"})

C16_Witness ==
    /\ call.op = "executed"
    /\ call.decision = "adapt"
    /\ call.ok
    /\ DOMAIN call.before.environment_vars = {"TIMEOUT", "JAVA_HOME"}
    /\ call.before.environment_vars["TIMEOUT"] = "30"
    /\ DOMAIN context.environment_vars = {"TIMEOUT", "JAVA_HOME"}
    /\ context.environment_vars["TIMEOUT"] = "600"
    /\ context.environment_vars["JAVA_HOME"] = "/opt/java"

\* ---- C17
\* the phase just recorded came from its executor as a failure with a single
\* issue, transient and of severity medium, and the built-in agent handled it
TransientMediumPhase ==
    /\ resolver = "IssueResolutionAgent"
    /\ pc = "loop"
    /\ Appended > 0
    /\ ExecutorReturned(Appended, FALSE)
    /\ Len(Last(execution_history).issues) = 1
    /\ Last(execution_history).issues[1].issue_type = "transient"
    /\ Last(execution_history).issues[1].severity = "medium"

\* C17 as stated: for such a phase the decision is ADAPT, the resolution leaves
\* environment_vars["TIMEOUT"] = "600", the phase is recorded with
\* success = True and the loop is at the next phase.
C17_TimeoutAdapted ==
    TransientMediumPhase =>
        /\ \E p \in DOMAIN trace : trace[p] = <<"analyze", Appended, 1, "adapt">>
        /\ "TIMEOUT" \in DOMAIN context.environment_vars
        /\ context.environment_vars["TIMEOUT"] = "600"
        /\ Last(execution_history).success
        /\ idx = Appended + 1

\* ---- C18
\* phase k of the list has no registered executor
IsMock(k) == phases[k] \notin DOMAIN phase_executors

\* C18: a phase with no registered executor is recorded with success = True,
\* the artifact "<phase>_mock_artifact" and no issue; no executor, no
\* analyze_situation, no log_decision and no execute_decision is called for
\* it; its artifact is appended to context.artifacts and the loop moves on.
C18_MockPhase ==
    /\ \A k \in 1..Appended :
          IsMock(k) =>
              /\ Res(k).phase = phases[k]
              /\ Res(k).success
              /\ Res(k).artifacts = <<phases[k] \o "_mock_artifact">>
              /\ Res(k).issues = <<>>
              /\ \A p \in DOMAIN trace :
                     trace[p][1] \in {"executor", "analyze", "log", "execute"}
                         => trace[p][2] # k
    /\ (pc = "loop" /\ Appended > 0 /\ IsMock(Appended)) =>
          /\ context.artifacts = pre_artifacts \o <<phases[Appended] \o "_mock_artifact">>
          /\ idx = Appended + 1

C18_Witness ==
    /\ pc = "loop"
    /\ Appended = 2
    /\ IsMock(2)
    /\ phases[2] = "analyze"
    /\ Len(Res(1).issues) > 0
    /\ Last(context.artifacts) = "analyze_mock_artifact"
    /\ idx = 3

\* ---- C19
\* at position p of the trace the phase-failure path got a decision that is
\* neither TERMINATE nor ESCALATE
IsDegradeDecision(p) ==
    /\ trace[p][1] = "analyze"
    /\ trace[p][3] = 0
    /\ trace[p][4] \notin {"terminate", "escalate"}

\* phase k of the list has been started after position p
StartedAfter(k, p) ==
    IF IsMock(k) THEN Appended >= k
    ELSE \E q \in DOMAIN trace :
             q > p /\ trace[q][1] = "executor" /\ trace[q][2] = k

\* C19: after a phase failure whose decision is neither TERMINATE nor
\* ESCALATE no strategy is executed for the critical issue, the executor of
\* the failed phase is not invoked again, the loop is past the failed phase,
\* and the run does not end before the next phase of the list was started.
C19_DegradedContinues ==
    \A p \in DOMAIN trace :
        IsDegradeDecision(p) =>
            LET k == trace[p][2]
            IN /\ \A q \in DOMAIN trace :
                      trace[q][1] \in {"execute", "returned", "raised"}
                          => ~(trace[q][2] = k /\ trace[q][3] = 0)
               /\ \A q \in DOMAIN trace :
                      (q > p /\ trace[q][1] = "executor") => trace[q][2] > k
               /\ idx > k
               /\ (pc = "idle" /\ k < Len(phases)) => StartedAfter(k + 1, p)

C19_Witness ==
    \E p \in DOMAIN trace :
        /\ IsDegradeDecision(p)
        /\ trace[p][2] = 1
        /\ \E q \in DOMAIN trace :
               q > p /\ trace[q][1] = "executor" /\ trace[q][2] = 2

\* ---- C20
\* at position p of the trace a TERMINATE is executed for an issue of a phase
IsTerminateResolution(p) ==
    /\ trace[p][1] = "execute"
    /\ trace[p][3] >= 1
    /\ trace[p][4] = "terminate"

\* the step routes the issue at issue_idx and executes TERMINATE for it
TerminateStep ==
    /\ pc = "resolve"
    /\ Len(trace') >= Len(trace) + 3
    /\ trace'[Len(trace) + 3] = <<"execute", idx, issue_idx, "terminate">>

\* C20 as stated: execute_decision with TERMINATE returns False and leaves the
\* PipelineContext as it was, and after a TERMINATE resolution of an issue no
\* further issue of the phase is routed to the policy and no further phase is
\* executed.
C20_TerminateStopsLoop ==
    /\ [](\A p \in DOMAIN trace :
              IsTerminateResolution(p) =>
                  /\ Len(trace) > p
                  /\ trace[p + 1] = <<"returned", trace[p][2], trace[p][3], FALSE>>
                  /\ \A q \in DOMAIN trace :
                         q > p =>
                             /\ trace[q][1] # "executor"
                             /\ ~(trace[q][1] = "analyze" /\ trace[q][3] >= 1)
                             /\ ~(trace[q][1] = "append" /\ trace[q][2] > trace[p][2]))
    /\ [][TerminateStep => context' = context]_vars

\* ---- C21
\* C21 as stated: a run returns False when it was halted by a TERMINATE or an
\* ESCALATE on the phase-failure path, and True when no such halt occurred.
C21_FalseOnlyOnHalt ==
    RunReturned =>
        (Last(returns) = "False" <=>
            \E p \in DOMAIN trace :
                IsFailureDecision(p, "terminate") \/ IsFailureDecision(p, "escalate"))

\* C21 amended: a run that returns, returns False exactly when the
\* phase-failure path was taken in it, whatever the decision for the critical
\* issue, also when the run went on to the next phase.
C21_FalseOnPhaseFailure ==
    RunReturned =>
        (Last(returns) = "False" <=>
            \E p \in DOMAIN trace : trace[p][1] = "analyze" /\ trace[p][3] = 0)

C21_Witness ==
    /\ RunReturned
    /\ Last(returns) = "False"
    /\ \E p \in DOMAIN trace : IsDegradeDecision(p)
    /\ Appended = Len(phases)
    /\ Appended >= 2

\* ---- C22
\* the positions of the trace with an event of this kind for issue i of phase k
EventsOf(kind, k, i) ==
    {p \in DOMAIN trace : trace[p][1] = kind /\ trace[p][2] = k /\ trace[p][3] = i}

\* the phases whose executor was invoked in the run
Executed == {trace[p][2] : p \in {q \in DOMAIN trace : trace[q][1] = "executor"}}

\* C22 as stated: every issue of a recorded phase went through
\* analyze_situation and then execute_decision exactly once, in the order
\* reported; and a run ends only at the end of a phase: every phase whose
\* executor was invoked has its PhaseResult appended when the run is over.
C22_NoMidPhaseHalt ==
    /\ \A k \in 1..Appended :
          \A i \in 1..Len(Res(k).issues) :
              /\ Cardinality(EventsOf("analyze", k, i)) = 1
              /\ Cardinality(EventsOf("execute", k, i)) = 1
              /\ \A a \in EventsOf("analyze", k, i) :
                     /\ \A x \in EventsOf("execute", k, i) : a < x
                     /\ \A b \in EventsOf("execute", k, i - 1) : b < a
    /\ (pc = "idle" /\ runs > 0) => \A k \in Executed : k <= Appended

\* ---- C23
\* the phases recorded in the run
Recorded == {p \in DOMAIN trace : trace[p][1] = "append"}

\* C23 as stated: every run starts with an empty execution_history, and after
\* an execute_pipeline call, a later one on the same orchestrator included,
\* execution_history holds one PhaseResult per phase visited in that run, at
\* most len(phases) of them.
C23_HistoryPerRun ==
    /\ hist_start = 0
    /\ (pc = "idle" /\ runs > 0) =>
          /\ Len(execution_history) = Cardinality(Recorded)
          /\ Len(execution_history) <= Len(phases)

\* ---- C24
\* the positions of the trace where the critical issue of phase k was built
Synthesized(k) ==
    {p \in DOMAIN trace : trace[p][1] = "synthesized" /\ trace[p][2] = k}

\* the phase-failure path of the phase recorded last has just been taken
FailureJustHandled ==
    /\ Appended > 0
    /\ ~Last(execution_history).success
    /\ \/ pc \in {"loop", "report"}
       \/ /\ pc = "idle"
          /\ Last(trace)[1] = "raised"
          /\ Last(trace)[2] = Appended
          /\ Last(trace)[3] = 0

\* C24: for every phase recorded as failed one Issue was built, of type
\* critical, severity high and the phase of the failed one, with the number of
\* issues of the failed PhaseResult in its message, and handed to
\* analyze_situation once; the issues of the failed PhaseResult are those its
\* executor reported.
C24_CriticalIssueSynthesized ==
    /\ \A k \in 1..Appended :
          ~Res(k).success =>
              /\ Cardinality(Synthesized(k)) = 1
              /\ \A p \in Synthesized(k) :
                     /\ trace[p][3].issue_type = "critical"
                     /\ trace[p][3].severity = "high"
                     /\ trace[p][3].phase = Res(k).phase
                     /\ Len(trace[p][3].message) >= 5
                     /\ trace[p][3].message[5] = ToStr(Len(Res(k).issues))
                     /\ Len(trace) > p
                     /\ trace[p + 1][1] = "analyze"
              /\ Cardinality(EventsOf("analyze", k, 0)) = 1
    /\ FailureJustHandled => Last(execution_history).issues = result.issues

C24_Witness ==
    /\ FailureJustHandled
    /\ Len(result.issues) = 2
    /\ \E p \in Synthesized(Appended) : trace[p][3].message[5] = "2"

\* ---- C25
\* C25 as stated: the agent_decisions of a recorded PhaseResult are the
\* decisions applied to its issues, one per issue, in the order the issues
\* were resolved.
C25_AgentDecisionsRecorded ==
    \A k \in 1..Appended :
        /\ Len(Res(k).agent_decisions) = Len(Res(k).issues)
        /\ \A i \in 1..Len(Res(k).issues) :
               \E p \in EventsOf("analyze", k, i) :
                   trace[p][4] = Res(k).agent_decisions[i]

\* ---- C26
\* the executor of the phase at idx has just been called
JustHanded == pc \in {"resolve", "record"} /\ issue_idx = 1 /\ ~IsMock(idx)

\* the step routes an issue and executes ADAPT for it
AdaptStep ==
    /\ pc = "resolve"
    /\ Len(trace') >= Len(trace) + 3
    /\ trace'[Len(trace) + 3] = <<"execute", idx, issue_idx, "adapt">>

\* C26: every executor is handed the PipelineContext of the run as it is at
\* that moment, and environment_vars and metadata change only when an
\* adaptation writes one of its keys: no step removes a key, and no step other
\* than an adaptation changes a value, so what an adaptation wrote is there
\* for every later phase unless a later adaptation writes the same key.
C26_AdaptationsPersist ==
    /\ [](JustHanded =>
            /\ Len(trace) >= 2
            /\ trace[Len(trace) - 1] = <<"handed", idx, context>>)
    /\ [][/\ DOMAIN context.environment_vars \subseteq DOMAIN context'.environment_vars
          /\ DOMAIN context.metadata \subseteq DOMAIN context'.metadata
          /\ ~AdaptStep =>
                /\ context'.environment_vars = context.environment_vars
                /\ context'.metadata = context.metadata
          /\ AdaptStep =>
                /\ SameExcept(context.environment_vars, context'.environment_vars,
                              {"TIMEOUT", "MEMORY_LIMIT"})
                /\ SameExcept(context.metadata, context'.metadata,
                              {"quality_threshold"})]_vars

C26_Witness ==
    \E p \in DOMAIN trace :
        /\ trace[p][1] = "handed"
        /\ trace[p][2] = 2
        /\ "TIMEOUT" \in DOMAIN trace[p][3].environment_vars
        /\ trace[p][3].environment_vars["TIMEOUT"] = "600"
        /\ EventsOf("execute", 1, 1) # {}

\* ---- C27
\* an issue of the same issue_type and severity in another phase, with another
\* message and no context
Twin(issue) == Issue(issue.issue_type, issue.severity, "deploy", <<"other">>, EmptyDict)

\* C27: analyze_situation returns one of the five AgentDecisions, the one it
\* returns for any issue of the same issue_type and severity, whatever the
\* context, the phase, the message and the calls made before; the call leaves
\* the PipelineContext and decision_history as they were.
C27_PolicyIsPure ==
    call.op = "analyzed" =>
        /\ call.decision \in AgentDecision
        /\ call.decision = analyze_situation(Twin(call.issue))
        /\ context = call.before
        /\ decision_history = <<>>

C27_Witness ==
    /\ call.op = "analyzed"
    /\ call.issue.issue_type = "transient"
    /\ call.issue.severity = "low"
    /\ ContainsLower(call.issue.message, "timeout")
    /\ call.issue.phase = "build"
    /\ "TIMEOUT" \in DOMAIN context.environment_vars
    /\ trace # <<>>
    /\ call.decision = "retry"

\* ---- C28
\* the messages of MessageInputs with "timeout" in them, in any case
MentionsTimeout(m) ==
    m \in { <<"Timeout", "exceeded">>, <<"memory", "TIMEOUT">>,
            <<"Temporary", "network", "timeout", "during", "COBOL", "program", "extraction">> }

\* those with "memory" in them
MentionsMemory(m) == m \in { <<"out", "of", "Memory">>, <<"memory", "TIMEOUT">> }

\* the context the specification gives for an ADAPT of issue on context c
Adapted(c, issue) ==
    IF issue.issue_type = "configuration" /\ MentionsTimeout(issue.message)
      THEN [c EXCEPT !.environment_vars = Put(@, "TIMEOUT", "600")]
    ELSE IF issue.issue_type = "configuration" /\ MentionsMemory(issue.message)
      THEN [c EXCEPT !.environment_vars = Put(@, "MEMORY_LIMIT", "4G")]
    ELSE IF issue.issue_type = "data_quality"
      THEN [c EXCEPT !.metadata = Put(@, "quality_threshold", "0.8")]
    ELSE c

\* C28: ADAPT sets TIMEOUT = "600" for a configuration issue that mentions
\* timeout (also when it mentions memory too), MEMORY_LIMIT = "4G" for one
\* that mentions memory alone, quality_threshold = 0.8 for a data_quality
\* issue, and nothing for any other issue; a second ADAPT of the same issue
\* leaves the context as the first one left it.
C28_AdaptByTypeAndKeyword ==
    /\ (call.op = "executed" /\ call.decision = "adapt") =>
          context = Adapted(call.before, call.issue)
    /\ (call.op = "executed_again" /\ call.decision = "adapt") =>
          /\ call.between = Adapted(call.before, call.issue)
          /\ context = call.between

C28_Witness ==
    /\ call.op = "executed_again"
    /\ call.decision = "adapt"
    /\ call.issue.issue_type = "configuration"
    /\ call.issue.message = <<"memory", "TIMEOUT">>
    /\ "TIMEOUT" \notin DOMAIN call.before.environment_vars
    /\ DOMAIN context.environment_vars = {"TIMEOUT", "MEMORY_LIMIT"}
    /\ context.environment_vars["TIMEOUT"] = "600"
    /\ context.environment_vars["MEMORY_LIMIT"] = "1G"

\* the report logged by the run that has just returned
Report == Last(trace)[2]

\* the step that generates the report
ReportStep == Len(trace') = Len(trace) + 1 /\ Last(trace')[1] = "report"

\* the sum of the values of a dictionary of counts
RECURSIVE SumCounts(_)
SumCounts(f) ==
    IF DOMAIN f = {} THEN 0
    ELSE LET d == CHOOSE x \in DOMAIN f : TRUE
         IN f[d] + SumCounts([x \in DOMAIN f \ {d} |-> f[x]])

\* every recorded phase succeeded and detected no issue
AllCleanPhases ==
    \A i \in 1..Len(execution_history) :
        execution_history[i].success /\ Len(execution_history[i].issues) = 0

\* C29: generating the report is pure aggregation. The report step leaves
\* execution_history, decision_history and the context unchanged; the
\* successful-phase count it logs is the number of history entries with
\* success = True and never exceeds the total; the per-decision counts it
\* logs sum to len(decision_history); and on a fresh orchestrator whose
\* phases all succeeded without issues the success rate is 100.0% and
\* decision_history is empty.
C29_ReportIsAggregation ==
    /\ []((RunReturned /\ Len(execution_history) > 0) =>
            /\ ~Report.empty
            /\ Report.total_phases = Len(execution_history)
            /\ Report.successful_phases =
                   Cardinality({i \in 1..Len(execution_history) :
                                   execution_history[i].success})
            /\ Report.successful_phases <= Report.total_phases
            /\ SumCounts(Report.decision_counts) = Len(decision_history)
            /\ (runs = 1 /\ AllCleanPhases) =>
                   /\ Report.success_rate = 1000
                   /\ Len(decision_history) = 0)
    /\ [][ReportStep =>
              /\ execution_history' = execution_history
              /\ decision_history' = decision_history
              /\ context' = context]_vars

\* a run has returned with a report that counts a failed phase among the
\* recorded ones and at least one logged decision
C29_Witness ==
    /\ RunReturned
    /\ Len(execution_history) > 0
    /\ Report.successful_phases < Report.total_phases
    /\ SumCounts(Report.decision_counts) > 0

\* ---- C30
\* the positions of the trace that belong to the resolution of an issue the
\* executor reported (and not to the phase-failure path)
PerIssue == {p \in DOMAIN trace :
                /\ trace[p][1] \in {"analyze", "returned", "raised"}
                /\ trace[p][3] >= 1}

\* C30 as stated: with the built-in policy and strategies no per-issue
\* resolution fails during a run. analyze_situation never returns TERMINATE
\* for a reported issue and every execute_decision call made for one returns
\* True; so every recorded PhaseResult with at least one issue has success =
\* True, and a recorded PhaseResult with success = False has no issues and
\* comes from an executor that returned success = False.
C30_NoResolutionFails ==
    resolver = "IssueResolutionAgent" =>
        /\ \A p \in PerIssue :
               /\ trace[p][1] = "analyze" => trace[p][4] # "terminate"
               /\ trace[p][1] # "raised"
               /\ trace[p][1] = "returned" => trace[p][4]
        /\ \A i \in 1..Len(execution_history) :
               /\ Len(execution_history[i].issues) > 0
                      => execution_history[i].success
               /\ ~execution_history[i].success
                      => Len(execution_history[i].issues) = 0
        /\ \A k \in 1..Appended :
               ~Res(k).success => ExecutorReturned(k, FALSE)

\* ---- C31
\* the failed PhaseResults appended in the run
FailedInRun == {k \in 1..Appended : ~Res(k).success}

\* C31: with the built-in policy every failed phase halts the run. At most
\* one PhaseResult with success = False is appended in a run and it is the
\* last one appended; the decision for the synthesized critical issue is
\* always ESCALATE, and once that decision was taken the loop visits no
\* further phase (no degraded continuation).
C31_FailureHaltsBuiltIn ==
    resolver = "IssueResolutionAgent" =>
        /\ Cardinality(FailedInRun) <= 1
        /\ \A k \in FailedInRun : k = Appended
        /\ \A p \in DOMAIN trace :
               (trace[p][1] = "analyze" /\ trace[p][3] = 0) =>
                   /\ trace[p][4] = "escalate"
                   /\ pc \in {"idle", "report"}
                   /\ idx = trace[p][2]
                   /\ \A q \in DOMAIN trace :
                          q > p => trace[q][1] \notin {"handed", "executor", "append"}

\* the built-in agent has handled the failure of the first of two phases
C31_Witness ==
    /\ resolver = "IssueResolutionAgent"
    /\ Len(phases) >= 2
    /\ FailedInRun = {1}
    /\ \E p \in DOMAIN trace : IsFailureDecision(p, "escalate")
    /\ pc = "idle"

\* ---- C32
\* the loop of execute_pipeline is between two phases, or past the last one
PhaseBoundary == pc \in {"loop", "report"} \/ RunReturned

\* the issues of all the PhaseResults in execution_history
TotalIssues ==
    SumSeq([i \in 1..Len(execution_history) |-> Len(execution_history[i].issues)])

\* C32: at every phase boundary of the first run of an orchestrator,
\* len(decision_history) is the total number of issues of the PhaseResults in
\* execution_history: one DecisionRecord per issue an executor reported, none
\* for the critical issue of the phase-failure path.
C32_OneRecordPerIssue ==
    (runs = 1 /\ PhaseBoundary) => Len(decision_history) = TotalIssues

\* a first run is between two phases with two decisions logged and a failed
\* phase behind it
C32_Witness ==
    /\ runs = 1
    /\ pc = "loop"
    /\ Len(decision_history) >= 2
    /\ \E k \in 1..Appended : ~Res(k).success

\* ---- C33
\* context.artifacts when the run began
StartArtifacts == trace[1][2]

\* the artifacts of the successful ones among the first k PhaseResults of
\* the run, in history order
RECURSIVE SuccessfulArtifacts(_)
SuccessfulArtifacts(k) ==
    IF k = 0 THEN <<>>
    ELSE SuccessfulArtifacts(k - 1)
             \o (IF Res(k).success THEN Res(k).artifacts ELSE <<>>)

\* C33: the artifacts of a failed phase are never added to the context. At
\* every phase boundary of a run, context.artifacts is the list the run
\* started with followed by the artifacts of the successful PhaseResults of
\* the run, in history order.
C33_FailedArtifactsDropped ==
    (runs > 0 /\ PhaseBoundary) =>
        context.artifacts = StartArtifacts \o SuccessfulArtifacts(Appended)

\* the run is between two phases after a failed phase that produced
\* artifacts and a successful one that did
C33_Witness ==
    /\ pc = "loop"
    /\ \E k \in 1..Appended : ~Res(k).success /\ Len(Res(k).artifacts) > 0
    /\ \E k \in 1..Appended : Res(k).success /\ Len(Res(k).artifacts) > 0
    /\ Len(StartArtifacts) > 0

\* ---- C34
\* the first run of an orchestrator with the built-in agent and the registry
\* __init__ builds
DefaultFirstRun ==
    /\ resolver = "IssueResolutionAgent"
    /\ phase_executors = DefaultRegistry
    /\ runs = 1

\* metadata["simulate_issues"] of the context of the run
Simulate == Get(context.metadata, "simulate_issues", FALSE)

\* the extract phases recorded in the run
ExtractsInRun == {k \in 1..Appended : Res(k).phase = "extract"}

\* C34: with the default registry, execute_pipeline on a fresh orchestrator
\* returns True and visits every requested phase, whatever simulate_issues
\* is. With simulate_issues true an extract phase reports one
\* transient/medium issue and 3 artifacts, one DecisionRecord "adapt" is
\* appended for it and its PhaseResult is recorded with success = True; with
\* simulate_issues false it reports 4 artifacts and no issue, and
\* decision_history stays empty.
C34_DefaultRunSucceeds ==
    DefaultFirstRun =>
        /\ pc = "idle" =>
               /\ RunReturned
               /\ Last(returns) = "True"
               /\ Appended = Len(phases)
               /\ \A k \in 1..Appended : Res(k).phase = phases[k]
        /\ \A k \in ExtractsInRun :
               /\ Res(k).success
               /\ IF Simulate
                  THEN /\ Len(Res(k).issues) = 1
                       /\ Res(k).issues[1].issue_type = "transient"
                       /\ Res(k).issues[1].severity = "medium"
                       /\ Len(Res(k).artifacts) = 3
                  ELSE /\ Len(Res(k).issues) = 0
                       /\ Len(Res(k).artifacts) = 4
        /\ PhaseBoundary =>
               /\ Len(decision_history) =
                      IF Simulate THEN Cardinality(ExtractsInRun) ELSE 0
               /\ \A i \in 1..Len(decision_history) :
                      decision_history[i].decision = "adapt"

\* the default run over extract and a later phase has returned, with the
\* simulated issue resolved
C34_Witness ==
    /\ DefaultFirstRun
    /\ RunReturned
    /\ Simulate
    /\ Len(phases) >= 2
    /\ phases[1] = "extract"
    /\ Len(decision_history) = 1

\* ---- C35
\* the attempts of the retry loop that position a of the trace belongs to, up
\* to that position
AttemptsUpTo(a) ==
    {b \in Attempts :
        b <= a /\ \A q \in b..a : trace[q][1] \in {"attempt", "sleep"}}

\* the reports generated in the run
Reports == {p \in DOMAIN trace : trace[p][1] = "report"}

\* C35 as stated: when execute_pipeline is over, every requested phase was
\* executed and recorded at most once, every issue of a recorded phase got
\* exactly one resolution call, no RETRY resolution made more than 3
\* attempts, and the execution report was generated exactly once, as the
\* last step of the run, also when the run was halted.
C35_RunEndsWithOneReport ==
    (pc = "idle" /\ runs > 0) =>
        /\ \A k \in 1..Len(phases) :
               /\ Cardinality({p \in DOMAIN trace :
                                  trace[p][1] = "executor" /\ trace[p][2] = k}) <= 1
               /\ Cardinality({p \in Recorded : trace[p][2] = k}) <= 1
        /\ \A k \in 1..Appended :
               \A i \in 1..Len(Res(k).issues) :
                   Cardinality(EventsOf("execute", k, i)) = 1
        /\ \A a \in Attempts : Cardinality(AttemptsUpTo(a)) <= 3
        /\ Cardinality(Reports) = 1
        /\ Last(trace)[1] = "report"

\* ===================================================================
\* The enhanced command orchestrator (enhanced_orchestrator.py)
\* ===================================================================

\* AgentDecision of enhanced_orchestrator.py
EnhancedDecision == {"proceed", "retry", "adapt", "escalate", "alternative_path"}

\* what subprocess.call answers in the model
ExitCodes == {0, 1, 124}

max_attempts == 3

\* dict.update(e)
Update(d, e) ==
    [x \in (DOMAIN d) \cup (DOMAIN e) |-> IF x \in DOMAIN e THEN e[x] ELSE d[x]]

\* keyword in word.lower(), for the words the commands of the model are made of
WordMentions(word, keyword) ==
    CASE word \in {"tools/network-sync.py", "--data-set=network-app"}
             -> keyword = "network"
      [] word \in {"tools/check-timeout.py", "--timeout=600"}
             -> keyword = "timeout"
      [] word \in {"tools/memory-report.py", "--memory=4G"}
             -> keyword = "memory"
      [] word = "tools/migratonomy/analyze-mvs-jcl.py"
             -> keyword = "analyze"
      [] OTHER -> FALSE

\* keyword in cmd.lower(), a command being the sequence of its words
CmdMentions(c, keyword) == \E i \in 1..Len(c) : WordMentions(c[i], keyword)

\* os.path.basename(word)
Basename(word) ==
    CASE word = "tools/migratonomy/obtain-cobol-programs.py" -> "obtain-cobol-programs.py"
      [] word = "tools/migratonomy/analyze-mvs-jcl.py" -> "analyze-mvs-jcl.py"
      [] word = "tools/migratonomy/load-analysis-csv-files.py" -> "load-analysis-csv-files.py"
      [] word = "tools/network-sync.py" -> "network-sync.py"
      [] word = "tools/check-timeout.py" -> "check-timeout.py"
      [] word = "tools/memory-report.py" -> "memory-report.py"
      [] OTHER -> word

\* os.path.basename(cmd.split()[2]) if len(cmd.split()) > 2 else
\* cmd.replace(' ', '_')
ScriptName(c) ==
    IF Len(c) > 2 THEN Basename(c[3])
    ELSE IF Len(c) = 2 THEN c[1] \o "_" \o c[2]
    ELSE IF Len(c) = 1 THEN c[1]
    ELSE ""

\* ExecutionContext(project_dir, snapshot, app_name, "JAVA", "bash")
ExecutionContext(app_name) ==
    [project_dir |-> "project", snapshot |-> "snapshot-1", app_name |-> app_name,
     target_language |-> "JAVA", script_language |-> "bash",
     environment_vars |-> EmptyDict, execution_history |-> <<>>]

\* AgentInterface._classify_issue
classify_issue(exit_code) ==
    CASE exit_code = 1 -> "general_error"
      [] exit_code = 2 -> "configuration_error"
      [] exit_code = 124 -> "timeout_error"
      [] OTHER -> "unknown_error"

\* AgentInterface._assess_severity
assess_severity(c, exit_code) ==
    IF CmdMentions(c, "critical") \/ exit_code > 100 THEN "high"
    ELSE IF CmdMentions(c, "analyze") THEN "medium"
    ELSE "low"

\* AgentInterface._suggest_action
suggest_action(c, exit_code) ==
    IF exit_code = 124 THEN "increase_timeout"
    ELSE IF CmdMentions(c, "memory") THEN "increase_memory"
    ELSE "retry_with_backoff"

\* the dict AgentInterface.analyze_failure returns
analyze_failure(c, exit_code) ==
    [issue_type |-> classify_issue(exit_code),
     severity |-> assess_severity(c, exit_code),
     context |-> [command |-> c, exit_code |-> exit_code],
     suggested_action |-> suggest_action(c, exit_code)]

\* AgentInterface.adapt_parameters: the second test looks at str() of the
\* analysis context, which holds the command and the exit code
adapt_parameters(issue_analysis) ==
    LET timeout == IF CmdMentions(issue_analysis.context.command, "timeout")
                   THEN Put(EmptyDict, "timeout", "600") ELSE EmptyDict
    IN IF CmdMentions(issue_analysis.context.command, "memory")
       THEN Put(timeout, "memory_limit", "4G") ELSE timeout

\* a strategy that lets a failure of the first attempts pass
decide_retry_strategy_proceeds(c, count) ==
    IF count < 3 THEN
        IF CmdMentions(c, "network") \/ CmdMentions(c, "timeout") THEN "retry"
        ELSE "proceed"
    ELSE "escalate"

\* AgentInterface.decide_retry_strategy
decide_retry_strategy(c, count) ==
    IF count < 3 THEN
        IF CmdMentions(c, "network") \/ CmdMentions(c, "timeout") THEN "retry"
        ELSE "adapt"
    ELSE "escalate"

\* AgentInterface.find_alternative_path: alternatives.get(failed_phase, None),
\* None being the empty list here ("if alternatives:" treats them alike)
find_alternative_path(failed_phase) ==
    CASE failed_phase = "obtain-cobol-programs"
             -> <<"obtain-cobol-copybooks", "analyze-existing-programs">>
      [] failed_phase = "convert-cobol-to-oo"
             -> <<"convert-with-relaxed-rules", "partial-conversion">>
      [] failed_phase = "ant-build" -> <<"maven-build", "gradle-build">>
      [] OTHER -> <<>>

\* AgentInterface.escalate_issue: "True", or the exception raised by
\* issue_analysis['issue_type'] or by context.app_name
escalate_issue(issue_analysis, ctx) ==
    IF "issue_type" \notin DOMAIN issue_analysis THEN "KeyError"
    ELSE IF ctx = None THEN "AttributeError"
    ELSE "True"

\* EnhancedOrchestrator._apply_parameter_adaptations
apply_parameter_adaptations(c, ctx) ==
    LET with_timeout == IF "timeout" \in DOMAIN ctx.environment_vars
                        THEN Append(c, "--timeout=" \o ctx.environment_vars["timeout"])
                        ELSE c
    IN IF "memory_limit" \in DOMAIN ctx.environment_vars
       THEN Append(with_timeout, "--memory=" \o ctx.environment_vars["memory_limit"])
       ELSE with_timeout

\* EnhancedOrchestrator._apply_adaptations
apply_adaptations(ctx, adaptations) ==
    IF ctx = None THEN ctx
    ELSE [ctx EXCEPT !.environment_vars = Update(@, adaptations)]

\* a backoff that does not grow
RetrySleepFlat(count) == 2

\* delay = 2 ** attempt_count
RetrySleep(count) == 2 ^ count

\* whether the RETRY branch sleeps and continues: if attempt_count <
\* max_attempts
RetrySleeps(count) == count < max_attempts

\* decide_retry_strategy of the agent in use: the built-in rule, or any
\* AgentDecision for an overriding agent
RetryDecisions(c, count) ==
    IF agent = "AgentInterface" THEN {decide_retry_strategy(c, count)}
    ELSE EnhancedDecision

\* what follows a failed attempt once the agent has decided: return rc,
\* continue the loop, call run_cmd_with_agent again for an alternative, or
\* raise; count is attempt_count, c the command executed
AfterDecision(decision, c, count, code, issue_analysis, ctx, sname) ==
    LET goes_on == [next |-> IF count < max_attempts THEN "continue" ELSE "return",
                    rc |-> code, context |-> ctx, cmd |-> c, events |-> <<>>]
    IN CASE decision = "proceed" ->
              [goes_on EXCEPT !.next = "return", !.rc = 0]
         [] decision = "retry" ->
              IF RetrySleeps(count)
              THEN [goes_on EXCEPT !.next = "continue",
                                   !.events = << <<"sleep", RetrySleep(count)>> >>]
              ELSE goes_on
         [] decision = "adapt" ->
              LET adaptations == adapt_parameters(issue_analysis)
              IN [goes_on EXCEPT !.context = apply_adaptations(ctx, adaptations),
                                 !.events = << <<"adapt", adaptations>> >>]
         [] decision = "alternative_path" ->
              LET alternatives == find_alternative_path(sname)
              IN IF Len(alternatives) > 0
                 THEN [goes_on EXCEPT !.next = "call", !.cmd = <<alternatives[1]>>]
                 ELSE goes_on
         [] decision = "escalate" ->
              LET out == escalate_issue(issue_analysis, ctx)
              IN IF out = "True"
                 THEN [goes_on EXCEPT !.next = "return",
                                      !.events = << <<"escalate", "run_cmd", count>> >>]
                 ELSE [goes_on EXCEPT !.next = "raise", !.rc = out,
                                      !.events = << <<"escalate", "run_cmd", count>> >>]

\* the commands run_cmd_with_agent is called with directly
CommandInputs ==
    { <<"py", "-3", "tools/migratonomy/obtain-cobol-programs.py">>,
      <<"py", "-3", "tools/network-sync.py">>,
      <<"py", "-3", "tools/check-timeout.py">>,
      <<"py", "-3", "tools/memory-report.py">>,
      <<"py", "-3", "ant-build">> }

\* the app names entered at the prompt
AppNames == {"demo-app", "network-app"}

\* analysis_cmds of main_with_agents after cmd.format(app_name=app_name):
\* OB01, AN10 and LD01 of its 21 entries
analysis_cmds(app_name) ==
    << <<"py", "-3", "tools/migratonomy/obtain-cobol-programs.py">>,
       <<"py", "-3", "tools/migratonomy/analyze-mvs-jcl.py">>,
       <<"py", "-3", "tools/migratonomy/load-analysis-csv-files.py",
         "--data-set=" \o app_name>> >>

\* the phase pipeline is not in use
NoPipeline ==
    /\ resolver = "IssueResolutionAgent"
    /\ phase_executors = DefaultRegistry
    /\ context = NewContext(FALSE, <<>>)
    /\ execution_history = <<>>
    /\ decision_history = <<>>
    /\ phases = <<>>
    /\ idx = 1
    /\ result = NoResult
    /\ issue_idx = 1
    /\ resolved_issues = <<>>
    /\ overall_success = TRUE
    /\ returns = <<>>
    /\ runs = 0
    /\ hist_start = 0
    /\ pre_artifacts = <<>>
    /\ call = NoCall

\* EnhancedOrchestrator.__init__
EnhancedInit ==
    /\ NoPipeline
    /\ agent \in {"AgentInterface", "AgentOverride"}
    /\ self_context = None
    /\ commands = <<>>
    /\ cmd_idx = 0
    /\ cmd = <<>>
    /\ script_name = ""
    /\ attempt_count = 0
    /\ intervention_count = 0
    /\ pc = "ready"
    /\ trace = <<>>
    /\ work = 0

\* a caller invokes run_cmd_with_agent: the lines before the while loop
RunCmdWithAgent ==
    /\ pc = "ready"
    /\ work < MaxWork
    /\ \E c \in CommandInputs :
          /\ cmd' = c
          /\ script_name' = ScriptName(c)
          /\ trace' = << <<"call", c, intervention_count>> >>
    /\ attempt_count' = 0
    /\ cmd_idx' = 0
    /\ commands' = <<>>
    /\ pc' = "attempt"
    /\ UNCHANGED <<pipeline_vars, work, agent, self_context, intervention_count>>

\* main_with_agents up to its for loop over analysis_cmds
MainWithAgents ==
    /\ pc = "ready"
    /\ \E app_name \in AppNames, choice \in {"1", "2", "3", "4"} :
          /\ self_context' = ExecutionContext(app_name)
          /\ commands' = IF choice \in {"1", "3"} THEN analysis_cmds(app_name) ELSE <<>>
          /\ trace' = << <<"main", choice>> >>
    /\ work < MaxWork
    /\ cmd_idx' = 1
    /\ pc' = "main"
    /\ UNCHANGED <<pipeline_vars, work, agent, cmd, script_name, attempt_count,
                   intervention_count>>

\* the head of the for loop of main_with_agents: the next
\* run_cmd_with_agent call, or _generate_agent_report after the last one
MainLoop ==
    /\ pc = "main"
    /\ IF cmd_idx <= Len(commands)
       THEN /\ cmd' = commands[cmd_idx]
            /\ script_name' = ScriptName(commands[cmd_idx])
            /\ attempt_count' = 0
            /\ trace' = << <<"call", commands[cmd_idx], intervention_count>> >>
            /\ pc' = "attempt"
       ELSE /\ trace' = << <<"report", intervention_count>> >>
            /\ pc' = "ready"
            /\ UNCHANGED <<cmd, script_name, attempt_count>>
    /\ UNCHANGED <<pipeline_vars, work, agent, self_context, commands, cmd_idx,
                   intervention_count>>

\* what main_with_agents does with the value run_cmd_with_agent returned:
\* the final escalation and sys.exit(1), or the next command
AfterCommand(rc, c, ctx) ==
    IF rc # 0
    THEN LET issue_analysis == [phase |-> "id", command |-> c, exit_code |-> rc,
                                message |-> "Unrecoverable failure"]
             out == escalate_issue(issue_analysis, ctx)
         IN IF out = "True"
            THEN [pc |-> "exited", events |-> << <<"escalate", "main", 0>>, <<"exit", 1>> >>]
            ELSE [pc |-> "raised", events |-> << <<"escalate", "main", 0>>, <<"raise", out>> >>]
    ELSE [pc |-> "main", events |-> <<>>]

\* one iteration of the while loop of run_cmd_with_agent, with what the
\* caller does when the call returns
Attempt ==
    /\ pc = "attempt"
    /\ attempt_count < max_attempts
    /\ work < MaxWork
    /\ work' = work + 1
    /\ LET count == attempt_count + 1
           c == IF count > 1 /\ self_context # None
                THEN apply_parameter_adaptations(cmd, self_context)
                ELSE cmd
       IN \E code \in ExitCodes :
            \E decision \in IF code = 0 THEN {"none"} ELSE RetryDecisions(c, count) :
              LET issue_analysis == analyze_failure(c, code)
                  out == IF code = 0
                         THEN [next |-> "return", rc |-> 0, context |-> self_context,
                               cmd |-> c, events |-> <<>>]
                         ELSE AfterDecision(decision, c, count, code, issue_analysis,
                                            self_context, script_name)
                  consulted == IF code = 0 THEN <<>>
                               ELSE << <<"analyze", count, code>>,
                                       <<"decide", count, decision>> >>
                  back == IF out.next = "return" /\ cmd_idx > 0
                          THEN AfterCommand(out.rc, c, out.context)
                          ELSE [pc |-> "ready", events |-> <<>>]
              IN /\ intervention_count' = intervention_count + (IF code = 0 THEN 0 ELSE 1)
                 /\ self_context' = out.context
                 /\ cmd' = out.cmd
                 /\ script_name' = IF out.next = "call" THEN ScriptName(out.cmd)
                                   ELSE script_name
                 /\ attempt_count' = IF out.next = "call" THEN 0 ELSE count
                 /\ cmd_idx' = IF out.next = "return" /\ cmd_idx > 0 /\ out.rc = 0
                               THEN cmd_idx + 1 ELSE cmd_idx
                 /\ trace' = trace \o << <<"exec", count, c, code>> >> \o consulted
                               \o out.events
                               \o (CASE out.next = "return" -> << <<"return", out.rc>> >>
                                     [] out.next = "raise" -> << <<"raise", out.rc>> >>
                                     [] out.next = "call" ->
                                            << <<"call", out.cmd, intervention_count'>> >>
                                     [] OTHER -> <<>>)
                               \o back.events
                 /\ pc' = CASE out.next = "return" -> back.pc
                            [] out.next = "raise" -> "raised"
                            [] OTHER -> "attempt"
    /\ UNCHANGED <<pipeline_vars, agent, commands>>

EnhancedNext ==
    \/ RunCmdWithAgent
    \/ MainWithAgents
    \/ MainLoop
    \/ Attempt

EnhancedSpec == EnhancedInit /\ [][EnhancedNext]_vars

\* ---- C36
\* the positions of the trace where a command was executed
Execs == {p \in DOMAIN trace : trace[p][1] = "exec"}

\* the executions of the run_cmd_with_agent call position q belongs to, up
\* to that position
ExecsOfCall(q) ==
    {p \in Execs : p <= q /\ \A r \in p..q : trace[r][1] # "call"}

\* the step is an attempt of run_cmd_with_agent that exits with code 0
SuccessfulAttempt ==
    /\ pc = "attempt"
    /\ Len(trace') > Len(trace)
    /\ trace'[Len(trace) + 1][1] = "exec"
    /\ trace'[Len(trace) + 1][4] = 0

\* C36: run_cmd_with_agent executes the command at most 3 times per call;
\* an attempt that exits with code 0 makes the call return 0 at once, without
\* consulting the agent (intervention_count and the context stay as they
\* are, nothing is adapted or escalated); it sleeps only after RETRY was
\* decided for a failed attempt that is not the last, 2 ** attempt_count
\* seconds (2, then 4), and goes on to the next attempt afterwards.
C36_SuccessPathKept ==
    /\ [](pc \in {"attempt", "ready", "main", "raised", "exited"} =>
            /\ \A q \in Execs :
                   /\ Cardinality(ExecsOfCall(q)) <= 3
                   /\ trace[q][2] = Cardinality(ExecsOfCall(q))
            /\ \A s \in DOMAIN trace :
                   trace[s][1] = "sleep" =>
                       /\ trace[s - 1][1] = "decide"
                       /\ trace[s - 1][3] = "retry"
                       /\ trace[s - 1][2] \in {1, 2}
                       /\ trace[s][2] = (IF trace[s - 1][2] = 1 THEN 2 ELSE 4)
                       /\ s < Len(trace) => trace[s + 1][1] = "exec"
                       /\ s = Len(trace) => pc = "attempt"
            /\ \A d \in DOMAIN trace :
                   (trace[d][1] = "decide" /\ trace[d][3] = "retry"
                        /\ trace[d][2] < 3)
                       => (d < Len(trace) /\ trace[d + 1][1] = "sleep"))
    /\ [][SuccessfulAttempt =>
              /\ trace' = trace \o << trace'[Len(trace) + 1], <<"return", 0>> >>
              /\ intervention_count' = intervention_count
              /\ self_context' = self_context]_vars

\* a call slept 2 and then 4 seconds and returned 0 from its third attempt
C36_Witness ==
    /\ \E s \in DOMAIN trace : trace[s] = <<"sleep", 2>>
    /\ \E s \in DOMAIN trace : trace[s] = <<"sleep", 4>>
    /\ Len(trace) > 0
    /\ Last(trace) = <<"return", 0>>

\* ---- C37
\* the escalations made from run_cmd_with_agent ("run_cmd") or from
\* main_with_agents ("main") in the call the trace holds
Escalations(from) ==
    {p \in DOMAIN trace : trace[p][1] = "escalate" /\ trace[p][2] = from}

\* the built-in agent is in use and the call the trace holds has made 3
\* attempts that all exited non-zero
ThreeFailures ==
    /\ agent = "AgentInterface"
    /\ Cardinality(Execs) = 3
    /\ \A q \in Execs : trace[q][4] # 0

\* C37 as stated: when all 3 attempts of run_cmd_with_agent exit non-zero,
\* the agent has analyzed each of them (intervention_count grew by 3),
\* escalate_issue was called exactly once, after the third failure, and the
\* call returns the exit code of the last attempt; main_with_agents then
\* escalates once more and exits with status 1, executing no later command.
C37_ThreeFailuresEscalate ==
    ThreeFailures =>
        /\ intervention_count = trace[1][3] + 3
        /\ Cardinality(Escalations("run_cmd")) = 1
        /\ \A p \in Escalations("run_cmd") : \A q \in Execs : q < p
        /\ \E p \in DOMAIN trace, q \in Execs :
               /\ trace[q][2] = 3
               /\ trace[p] = <<"return", trace[q][4]>>
        /\ cmd_idx > 0 =>
               /\ Cardinality(Escalations("main")) = 1
               /\ Last(trace) = <<"exit", 1>>
               /\ pc = "exited"

\* ---- C38
\* C38: with the built-in AgentInterface, run_cmd_with_agent returns 0 if
\* and only if one of its attempts exited with code 0. decide_retry_strategy
\* answers RETRY or ADAPT for attempt_count < 3 and ESCALATE from 3 on, never
\* PROCEED or ALTERNATIVE_PATH, so no failure is overridden and
\* run_cmd_with_agent is never called again for an alternative.
C38_ZeroOnlyOnSuccess ==
    agent = "AgentInterface" =>
        /\ \A p \in DOMAIN trace :
               trace[p][1] = "return" =>
                   (trace[p][2] = 0 <=> \E q \in Execs : q < p /\ trace[q][4] = 0)
        /\ \A q \in Execs :
               trace[q][4] = 0 => trace[q + 1] = <<"return", 0>>
        /\ \A d \in DOMAIN trace :
               trace[d][1] = "decide" =>
                   IF trace[d][2] < 3 THEN trace[d][3] \in {"retry", "adapt"}
                   ELSE trace[d][3] = "escalate"
        /\ \A p \in DOMAIN trace : trace[p][1] = "call" => p = 1

\* with the built-in agent a call has returned 0 from its second attempt,
\* after the agent was consulted on the first
C38_Witness ==
    /\ agent = "AgentInterface"
    /\ Cardinality(Execs) = 2
    /\ \E d \in DOMAIN trace : trace[d][1] = "decide"
    /\ Last(trace) = <<"return", 0>>

\* ===================================================================
\* The baseline orchestrators (baseline_orchestrator.py and the
\* BaselineOrchestrator of examples/gap_demonstration.py)
\* ===================================================================

\* "py -3 tools/migratonomy/<script>" with its arguments
Migratonomy(script, args) == <<"py", "-3", "tools/migratonomy/" \o script>> \o args

\* analysis_cmds of baseline main
baseline_analysis_cmds(app_name) ==
    << Migratonomy("obtain-cobol-programs.py", <<>>),
       Migratonomy("obtain-cobol-copybooks.py", <<>>),
       Migratonomy("obtain-mvs-jcl.py", <<>>),
       Migratonomy("obtain-bms-maps.py", <<>>),
       Migratonomy("obtain-sql-scripts.py", <<>>),
       Migratonomy("obtain-cics-tp.py", <<>>),
       Migratonomy("clean-cobol-programs.py", <<>>),
       Migratonomy("clean-cobol-copybooks.py", <<>>),
       Migratonomy("clean-mvs-jcl.py", <<>>),
       Migratonomy("analyze-bms-maps.py", <<>>),
       Migratonomy("analyze-sql-statements.sql-scripts.py", <<>>),
       Migratonomy("analyze-cobol-statements.copybooks.py", <<>>),
       Migratonomy("analyze-cobol-statements.programs.py", <<>>),
       Migratonomy("analyze-cics-statements.copybooks.py", <<>>),
       Migratonomy("analyze-cics-statements.programs.py", <<>>),
       Migratonomy("analyze-sql-statements.copybooks.py", <<>>),
       Migratonomy("analyze-sql-statements.programs.py", <<>>),
       Migratonomy("analyze-mvs-jcl.py", <<>>),
       Migratonomy("analyze-cics-tp.py", <<>>),
       Migratonomy("load-analysis-csv-files.py", <<"--data-set=" \o app_name>>),
       Migratonomy("generate-analysis-reports.py", <<"--data-set=" \o app_name>>) >>

\* phases of BaselineOrchestrator.execute_pipeline
baseline_phases == <<"extract", "validate", "analyze", "transform", "build">>

\* BaselineOrchestrator._simulate_phase_execution
simulate_phase_execution(phase, phase_index) ==
    IF phase = "transform" /\ phase_index = 3 THEN 1 ELSE 0

\* a test that lets every exit code but 1 pass
FailedOnlyOnOne(rc) == rc = 1

\* "if rc != 0" of main, "if exit_code != 0" of execute_pipeline
Failed(rc) == rc # 0

\* one orchestrator process, nothing started yet
BaselineInit ==
    /\ NoPipeline
    /\ NoCommands
    /\ pc = "ready"
    /\ trace = <<>>
    /\ work = 0

\* baseline main in mode 1 (analysis only), up to its for loop
BaselineMain ==
    /\ pc = "ready"
    /\ work < MaxWork
    /\ work' = work + 1
    /\ \E app_name \in AppNames : commands' = baseline_analysis_cmds(app_name)
    /\ cmd_idx' = 1
    /\ trace' = << <<"main", "1">> >>
    /\ pc' = "command"
    /\ UNCHANGED <<pipeline_vars, agent, self_context, cmd, script_name,
                   attempt_count, intervention_count>>

\* one iteration of the for loop of main: run_cmd and the test of its
\* return code; past the last command, the return of mode 1
BaselineCommand ==
    /\ pc = "command"
    /\ IF cmd_idx <= Len(commands)
       THEN \E rc \in ExitCodes :
              /\ trace' = Append(trace, <<"exec", cmd_idx, commands[cmd_idx], rc>>)
                            \o (IF Failed(rc) THEN << <<"exit", "1">> >> ELSE <<>>)
              /\ pc' = IF Failed(rc) THEN "exited" ELSE "command"
              /\ cmd_idx' = IF Failed(rc) THEN cmd_idx ELSE cmd_idx + 1
       ELSE /\ trace' = Append(trace, <<"return", "None">>)
            /\ pc' = "ready"
            /\ cmd_idx' = cmd_idx
    /\ UNCHANGED <<pipeline_vars, work, agent, self_context, commands, cmd,
                   script_name, attempt_count, intervention_count>>

\* BaselineOrchestrator.execute_pipeline up to its for loop
BaselineExecutePipeline ==
    /\ pc = "ready"
    /\ work < MaxWork
    /\ work' = work + 1
    /\ commands' = baseline_phases
    /\ cmd_idx' = 1
    /\ trace' = << <<"execute_pipeline">> >>
    /\ pc' = "phase"
    /\ UNCHANGED <<pipeline_vars, agent, self_context, cmd, script_name,
                   attempt_count, intervention_count>>

\* one iteration of the for loop of execute_pipeline; past the last phase,
\* return True
BaselinePhase ==
    /\ pc = "phase"
    /\ IF cmd_idx <= Len(commands)
       THEN LET exit_code == simulate_phase_execution(commands[cmd_idx], cmd_idx - 1)
            IN /\ trace' = Append(trace, <<"exec", cmd_idx, commands[cmd_idx], exit_code>>)
                             \o (IF Failed(exit_code) THEN << <<"return", "False">> >>
                                 ELSE <<>>)
               /\ pc' = IF Failed(exit_code) THEN "ready" ELSE "phase"
               /\ cmd_idx' = IF Failed(exit_code) THEN cmd_idx ELSE cmd_idx + 1
       ELSE /\ trace' = Append(trace, <<"return", "True">>)
            /\ pc' = "ready"
            /\ cmd_idx' = cmd_idx
    /\ UNCHANGED <<pipeline_vars, work, agent, self_context, commands, cmd,
                   script_name, attempt_count, intervention_count>>

BaselineNext ==
    \/ BaselineMain
    \/ BaselineCommand
    \/ BaselineExecutePipeline
    \/ BaselinePhase

BaselineSpec == BaselineInit /\ [][BaselineNext]_vars

\* ---- C39
\* the run the trace holds is over
BaselineOver == pc \in {"ready", "exited"} /\ Len(trace) > 0

====
